---------------------------- MODULE Spec2Model ----------------------------
(***************************************************************************)
(* A model of the cloud-server-auth lambda of mattermost-cloud-lambdas:    *)
(* the authenticating reverse proxy that validates an API Gateway request  *)
(* against an allow-list of paths and relays it to the cloud server        *)
(* (provisioner), notifying a Mattermost webhook on every failure.         *)
(* The peer lambdas of the repository that the properties at the end name *)
(* (bind-server, AMI cleanup, RDS failover alert, listAllLBs, RDS alarm,   *)
(* grant-privileges) follow the proxy, each with a state of its own and a  *)
(* specification of its own.                                               *)
(*                                                                         *)
(* Strings are TLA+ strings handled as sequences of characters (Len,       *)
(* SubSeq and \o), so that prefixes, regular expressions, URL parsing and  *)
(* escaping are computed character by character as the code and the Go    *)
(* standard library compute them.  The characters are the printable ASCII  *)
(* ones; the library's handling of '@' (userinfo), '[' ']' (IPv6 hosts)    *)
(* and '#' (fragments) is not modelled and no input contains them.         *)
(***************************************************************************)
EXTENDS Integers, Sequences, FiniteSets, TLC

(***************************************************************************)
(* Package strings.                                                        *)
(***************************************************************************)
Char(s, i) == SubSeq(s, i, i)

Drop(s, n) == SubSeq(s, n + 1, Len(s))

Take(s, n) == SubSeq(s, 1, n)

\* strings.HasPrefix
HasPrefix(s, prefix) ==
    /\ Len(s) >= Len(prefix)
    /\ SubSeq(s, 1, Len(prefix)) = prefix

\* strings.HasSuffix
HasSuffix(s, suffix) ==
    /\ Len(s) >= Len(suffix)
    /\ SubSeq(s, Len(s) - Len(suffix) + 1, Len(s)) = suffix

\* The least and the greatest member of a set of positions, 0 when it is empty.
First(S) == IF S = {} THEN 0 ELSE CHOOSE k \in S : \A m \in S : k <= m

Last(S) == IF S = {} THEN 0 ELSE CHOOSE k \in S : \A m \in S : m <= k

\* The position of the first occurrence of the character c at or after i.
IndexFrom(s, c, i) == First({ k \in i..Len(s) : Char(s, k) = c })

\* strings.Index for a one-character separator: the position of its first
\* occurrence, counted from 1, and 0 (Go's -1) when there is none.
Index(s, c) == IndexFrom(s, c, 1)

\* The position of the last occurrence of the character c at or before i.
LastIndexFrom(s, c, i) == Last({ k \in 1..i : Char(s, k) = c })

\* strings.LastIndex for a one-character separator (0 when there is none).
LastIndex(s, c) == LastIndexFrom(s, c, Len(s))

\* strings.Contains for a one-character substring.
Contains(s, c) == Index(s, c) > 0

\* strings.Contains.
ContainsString(s, sub) ==
    \E k \in 1..(Len(s) - Len(sub) + 1) : SubSeq(s, k, k + Len(sub) - 1) = sub

\* strings.Count for a one-character substring.
Count(s, c) == Cardinality({ k \in 1..Len(s) : Char(s, k) = c })

\* strings.Cut: the text before and after the first occurrence of sep.
CutBefore(s, sep) == IF Contains(s, sep) THEN Take(s, Index(s, sep) - 1) ELSE s

CutAfter(s, sep) == IF Contains(s, sep) THEN Drop(s, Index(s, sep)) ELSE ""

\* The characters of a string, as a set.
Chars(s) == { Char(s, i) : i \in 1..Len(s) }

Lower == "abcdefghijklmnopqrstuvwxyz"

Upper == "ABCDEFGHIJKLMNOPQRSTUVWXYZ"

Digits == "0123456789"

\* The printable ASCII characters in the order of their codes: 0x20 to 0x5F
\* and 0x61 to 0x7E (a TLA+ string cannot hold the grave accent, 0x60, which
\* no input contains).
PrintableLow == " !\"#$%&'()*+,-./" \o Digits \o ":;<=>?@" \o Upper \o "[\\]^_"

PrintableHigh == Lower \o "{|}~"

Letter == Chars(Lower) \cup Chars(Upper)

Digit == Chars(Digits)

AlphaNum == Letter \cup Digit

\* The code of a printable character, and the character of a code.
Ord(c) ==
    IF Contains(PrintableLow, c) THEN Index(PrintableLow, c) + 31
    ELSE Index(PrintableHigh, c) + 96

Chr(b) == IF b < 96 THEN Char(PrintableLow, b - 31) ELSE Char(PrintableHigh, b - 96)

\* A byte that is a printable character of the model.
IsPrintable(b) == (32 <= b /\ b <= 95) \/ (97 <= b /\ b <= 126)

\* The operators that rewrite a text character by character rewrite its two
\* halves and join them, which is the same text as a left-to-right pass.
Half(s) == Len(s) \div 2

\* strings.ToLower
RECURSIVE ToLower(_)
ToLower(s) ==
    IF s = "" THEN ""
    ELSE IF Len(s) = 1
         THEN (IF Contains(Upper, s) THEN Char(Lower, Index(Upper, s)) ELSE s)
    ELSE ToLower(Take(s, Half(s))) \o ToLower(Drop(s, Half(s)))

\* strconv.Quote (fmt's %q) on the model's characters: the text in double
\* quotes, with '"' and '\' escaped by a backslash and a tab written \t.
RECURSIVE QuoteBody(_)
QuoteBody(s) ==
    IF s = "" THEN ""
    ELSE IF Len(s) = 1
         THEN (CASE s = "\"" -> "\\\""
                 [] s = "\\" -> "\\\\"
                 [] s = "\t" -> "\\t"
                 [] OTHER -> s)
    ELSE QuoteBody(Take(s, Half(s))) \o QuoteBody(Drop(s, Half(s)))

Quote(s) == "\"" \o QuoteBody(s) \o "\""

(***************************************************************************)
(* Package net/url (Go 1.23, the version of cloud-server-auth/go.mod).     *)
(***************************************************************************)
HexDigits == "0123456789ABCDEF"

\* ishex
IsHex(c) == c # "" /\ (c \in Digit \/ Contains("abcdefABCDEF", c))

\* unhex
Unhex(c) ==
    IF c \in Digit THEN Index(Digits, c) - 1
    ELSE IF Contains("abcdef", c) THEN Index("abcdef", c) + 9
    ELSE Index("ABCDEF", c) + 9

\* shouldEscape, for the modes the proxy uses: "path" (encodePath), "host"
\* (encodeHost) and "query" (encodeQueryComponent).
shouldEscape(c, mode) ==
    IF c \in AlphaNum THEN FALSE
    ELSE IF mode = "host" /\ Contains("!$&'()*+,;=:[]<>\"", c) THEN FALSE
    ELSE IF Contains("-_.~", c) THEN FALSE
    ELSE IF Contains("$&+,/:;=?@", c)
         THEN (CASE mode = "path" -> c = "?"
                 [] OTHER -> TRUE)
    ELSE TRUE

\* The escape of one byte: '%' and its two upper-case hexadecimal digits.
PercentHex(c) ==
    "%" \o Char(HexDigits, (Ord(c) \div 16) + 1) \o Char(HexDigits, (Ord(c) % 16) + 1)

\* escape
RECURSIVE escape(_, _)
escape(s, mode) ==
    IF s = "" THEN ""
    ELSE IF Len(s) = 1
         THEN (IF ~shouldEscape(s, mode) THEN s
               ELSE IF s = " " /\ mode = "query" THEN "+"
               ELSE PercentHex(s))
    ELSE escape(Take(s, Half(s)), mode) \o escape(Drop(s, Half(s)), mode)

\* url.QueryEscape
QueryEscape(s) == escape(s, "query")

\* unescape's first loop: the position of the first '%' that is not followed
\* by two hexadecimal digits (or, in a host, that is followed by any: a host
\* may escape only bytes outside the model's characters), 0 when there is none.
\* The loop steps over the two digits of a good escape, and they are no '%':
\* it stops at the first '%' of the text that is no good escape.
BadEscapeFrom(s, mode, i) ==
    First({ k \in i..Len(s) :
              /\ Char(s, k) = "%"
              /\ \/ k + 2 > Len(s)
                 \/ ~IsHex(Char(s, k + 1))
                 \/ ~IsHex(Char(s, k + 2))
                 \/ mode = "host" })

\* unescape's first loop in a host: the position of the first character a
\* host name cannot hold, 0 when there is none.
BadHostCharFrom(s, i) ==
    First({ k \in i..Len(s) : Char(s, k) # "%" /\ shouldEscape(Char(s, k), "host") })

\* unescape's second loop at position i of a text whose escapes are all
\* good: the byte of the escape that starts there, nothing for the two digits
\* of an escape, and the character itself otherwise.
DecodeAt(s, mode, i) ==
    IF Char(s, i) = "%" THEN Chr(16 * Unhex(Char(s, i + 1)) + Unhex(Char(s, i + 2)))
    ELSE IF (i > 1 /\ Char(s, i - 1) = "%") \/ (i > 2 /\ Char(s, i - 2) = "%") THEN ""
    ELSE IF Char(s, i) = "+" /\ mode = "query" THEN " "
    ELSE Char(s, i)

RECURSIVE DecodeRange(_, _, _, _)
DecodeRange(s, mode, lo, hi) ==
    IF lo > hi THEN ""
    ELSE IF lo = hi THEN DecodeAt(s, mode, lo)
    ELSE DecodeRange(s, mode, lo, (lo + hi) \div 2)
             \o DecodeRange(s, mode, ((lo + hi) \div 2) + 1, hi)

\* unescape's second loop: the text with every %XX replaced by its byte.
Decode(s, mode) == DecodeRange(s, mode, 1, Len(s))

\* unescape's result when its first loop stopped at the bad escape at
\* position e or at the bad host character at position h (0: none): err is
\* "" (nil) or the text of the EscapeError or InvalidHostError.
unescapeResult(s, mode, e, h) ==
    IF e > 0 /\ (h = 0 \/ e < h)
    THEN [err |-> "invalid URL escape "
                     \o Quote(SubSeq(s, e, IF e + 2 > Len(s) THEN Len(s) ELSE e + 2)),
          val |-> ""]
    ELSE IF h > 0
    THEN [err |-> "invalid character " \o Quote(Char(s, h)) \o " in host name", val |-> ""]
    ELSE [err |-> "", val |-> Decode(s, mode)]

\* unescape
unescape(s, mode) ==
    unescapeResult(s, mode, BadEscapeFrom(s, mode, 1),
                   IF mode = "host" THEN BadHostCharFrom(s, 1) ELSE 0)

\* validEncoded
validEncoded(s, mode) ==
    \A i \in 1..Len(s) :
        \/ Contains("!$&'()*+,;=:@[]%", Char(s, i))
        \/ ~shouldEscape(Char(s, i), mode)

\* The zero url.URL.  User and Fragment are not modelled.
EmptyURL ==
    [Scheme |-> "", Opaque |-> "", Host |-> "", Path |-> "", RawPath |-> "",
     OmitHost |-> FALSE, ForceQuery |-> FALSE, RawQuery |-> ""]

\* (*URL).setPath, for p that unescapes to path: Path is the decoded path and
\* RawPath is p when p is not the default encoding of Path.
setPathTo(u, p, path) ==
    [u EXCEPT !.Path = path,
              !.RawPath = IF p = escape(path, "path") THEN "" ELSE p]

setPath(u, p) == setPathTo(u, p, unescape(p, "path").val)

\* (*URL).EscapedPath, given the result of unescaping RawPath.
escapedPathOf(u, raw) ==
    IF /\ u.RawPath # ""
       /\ validEncoded(u.RawPath, "path")
       /\ raw.err = ""
       /\ raw.val = u.Path
    THEN u.RawPath
    ELSE IF u.Path = "*" THEN "*"
    ELSE escape(u.Path, "path")

EscapedPath(u) == escapedPathOf(u, unescape(u.RawPath, "path"))

\* getScheme: the length of the scheme that starts rawURL (0: none), or -1
\* for the error "missing protocol scheme".
RECURSIVE SchemeEnd(_, _)
SchemeEnd(rawURL, i) ==
    IF i > Len(rawURL) THEN 0
    ELSE IF Char(rawURL, i) \in Letter THEN SchemeEnd(rawURL, i + 1)
    ELSE IF Char(rawURL, i) \in Digit \/ Contains("+-.", Char(rawURL, i))
         THEN (IF i = 1 THEN 0 ELSE SchemeEnd(rawURL, i + 1))
    ELSE IF Char(rawURL, i) = ":" THEN (IF i = 1 THEN -1 ELSE i - 1)
    ELSE 0

\* stringContainsCTLByte: a byte below 0x20 or 0x7F; the tab is the model's one.
stringContainsCTLByte(s) == Contains(s, "\t")

\* validOptionalPort
validOptionalPort(port) ==
    \/ port = ""
    \/ Char(port, 1) = ":" /\ \A i \in 2..Len(port) : Char(port, i) \in Digit

\* parseHost (and parseAuthority without userinfo), i being the position of
\* the host's last ':' : err is "" or the error.
parseHostAt(host, i) ==
    IF i > 0 /\ ~validOptionalPort(Drop(host, i - 1))
    THEN [err |-> "invalid port " \o Quote(Drop(host, i - 1)) \o " after host", val |-> ""]
    ELSE unescape(host, "host")

parseHost(host) == parseHostAt(host, LastIndex(host, ":"))

ParseError(text) == [err |-> text, url |-> EmptyURL]

\* parse's end: the path is set (setPath fails when it does not unescape).
parsePath(u, rest, path) ==
    IF path.err # "" THEN ParseError(path.err)
    ELSE [err |-> "", url |-> setPathTo(u, rest, path.val)]

\* parse after the authority was cut from the text that follows "//".
parseAuthority(u, host, rest) ==
    IF host.err # "" THEN ParseError(host.err)
    ELSE parsePath([u EXCEPT !.Host = host.val], rest, unescape(rest, "path"))

\* parse after the scheme and the query were cut off: an opaque URL, a
\* relative path whose first segment holds a colon (an error), a URL with an
\* authority, or a path.
parseRest(u, rest) ==
    IF ~HasPrefix(rest, "/") /\ u.Scheme # ""
    THEN [err |-> "", url |-> [u EXCEPT !.Opaque = rest]]
    ELSE IF ~HasPrefix(rest, "/") /\ Contains(CutBefore(rest, "/"), ":")
    THEN ParseError("first path segment in URL cannot contain colon")
    ELSE IF (u.Scheme # "" \/ ~HasPrefix(rest, "///")) /\ HasPrefix(rest, "//")
    THEN parseAuthority(u, parseHost(CutBefore(Drop(rest, 2), "/")),
                        IF Contains(Drop(rest, 2), "/")
                        THEN Drop(rest, Index(Drop(rest, 2), "/") + 1)
                        ELSE "")
    ELSE parsePath([u EXCEPT !.OmitHost = u.Scheme # "" /\ HasPrefix(rest, "/")],
                   rest, unescape(rest, "path"))

\* parse after the scheme was cut off: a lone trailing '?' sets ForceQuery,
\* otherwise the query is what follows the first '?'.
parseQuery(scheme, rest) ==
    IF HasSuffix(rest, "?") /\ Count(rest, "?") = 1
    THEN parseRest([EmptyURL EXCEPT !.Scheme = scheme, !.ForceQuery = TRUE],
                   Take(rest, Len(rest) - 1))
    ELSE parseRest([EmptyURL EXCEPT !.Scheme = scheme, !.RawQuery = CutAfter(rest, "?")],
                   CutBefore(rest, "?"))

\* parse after getScheme returned a scheme of n characters.
parseScheme(rawURL, n) ==
    IF n = -1 THEN ParseError("missing protocol scheme")
    ELSE IF n > 0 THEN parseQuery(ToLower(Take(rawURL, n)), Drop(rawURL, n + 1))
    ELSE parseQuery("", rawURL)

\* parse(rawURL, viaRequest = false): err is "" (nil) or the error's text.
parse(rawURL) ==
    IF stringContainsCTLByte(rawURL)
    THEN ParseError("net/url: invalid control character in URL")
    ELSE IF rawURL = "*" THEN [err |-> "", url |-> [EmptyURL EXCEPT !.Path = "*"]]
    ELSE parseScheme(rawURL, SchemeEnd(rawURL, 1))

\* url.Parse: the error, when there is one, is a *url.Error,
\* 'parse "<rawURL>": <error>'.
parseWrap(rawURL, r) ==
    IF r.err = "" THEN r
    ELSE ParseError("parse " \o Quote(rawURL) \o ": " \o r.err)

Parse(rawURL) == parseWrap(rawURL, parse(rawURL))

\* One round of resolvePath's loop, for the element elem: what dst, the path
\* written so far (it starts with the '/' written first), becomes; index is
\* the position of the last '/' of dst after its first character.
resolveDst(elem, dst, first, index) ==
    IF elem = "." THEN dst
    ELSE IF elem = ".."
         THEN (IF index = 0 THEN "/" ELSE "/" \o Take(Drop(dst, 1), index - 1))
    ELSE dst \o (IF first THEN "" ELSE "/") \o elem

\* ... and what first, which tells that no element follows that '/', becomes.
resolveFirst(elem, first, index) ==
    IF elem = "." THEN FALSE
    ELSE IF elem = ".." THEN (IF index = 0 THEN TRUE ELSE first)
    ELSE FALSE

\* resolvePath's loop over the elements of the path.
RECURSIVE resolveElems(_, _, _)
resolveStep(remaining, elem, dst, first) ==
    IF Contains(remaining, "/") THEN resolveElems(CutAfter(remaining, "/"), dst, first)
    ELSE IF elem = "." \/ elem = ".." THEN dst \o "/"
    ELSE dst

resolveElems(remaining, dst, first) ==
    resolveStep(remaining, CutBefore(remaining, "/"),
                resolveDst(CutBefore(remaining, "/"), dst, first,
                           LastIndex(Drop(dst, 1), "/")),
                resolveFirst(CutBefore(remaining, "/"), first,
                             LastIndex(Drop(dst, 1), "/")))

\* resolvePath's end: the result starts with exactly one '/'.
resolveTrim(r) == IF Len(r) > 1 /\ Char(r, 2) = "/" THEN Drop(r, 1) ELSE r

\* resolvePath: ref resolved against base, with the "." and ".." elements
\* removed.
resolvePath(base, ref) ==
    IF ref = ""
    THEN (IF base = "" THEN "" ELSE resolveTrim(resolveElems(base, "/", TRUE)))
    ELSE IF Char(ref, 1) # "/"
    THEN resolveTrim(resolveElems(Take(base, LastIndex(base, "/")) \o ref, "/", TRUE))
    ELSE resolveTrim(resolveElems(ref, "/", TRUE))

\* (*URL).ResolveReference
ResolveReference(u, ref) ==
    IF ref.Scheme # "" \/ ref.Host # ""
    THEN setPath([ref EXCEPT !.Scheme = IF ref.Scheme = "" THEN u.Scheme ELSE ref.Scheme],
                 resolvePath(EscapedPath(ref), ""))
    ELSE IF ref.Opaque # ""
    THEN [ref EXCEPT !.Scheme = u.Scheme, !.Host = "", !.Path = ""]
    ELSE IF ref.Path = "" /\ u.Opaque # ""
    THEN [ref EXCEPT !.Scheme = u.Scheme, !.Opaque = u.Opaque, !.Host = "", !.Path = "",
                     !.RawQuery = IF ~ref.ForceQuery /\ ref.RawQuery = ""
                                  THEN u.RawQuery ELSE ref.RawQuery]
    ELSE setPath([ref EXCEPT !.Scheme = u.Scheme, !.Host = u.Host,
                             !.RawQuery = IF ref.Path = "" /\ ~ref.ForceQuery
                                               /\ ref.RawQuery = ""
                                          THEN u.RawQuery ELSE ref.RawQuery],
                 resolvePath(EscapedPath(u), EscapedPath(ref)))

\* (*URL).String's scheme and authority.
stringPrefix(u) ==
    (IF u.Scheme # "" THEN u.Scheme \o ":" ELSE "")
        \o (IF (u.Scheme # "" \/ u.Host # "") /\ ~(u.OmitHost /\ u.Host = "")
            THEN (IF u.Host # "" \/ u.Path # "" THEN "//" ELSE "") \o escape(u.Host, "host")
            ELSE "")

\* (*URL).String, given the prefix and the escaped path.
stringOf(u, prefix, path) ==
    (IF u.Opaque # "" THEN u.Scheme \o (IF u.Scheme # "" THEN ":" ELSE "") \o u.Opaque
     ELSE prefix
             \o (IF path # "" /\ Char(path, 1) # "/" /\ u.Host # "" THEN "/" ELSE "")
             \o (IF prefix = "" /\ Contains(CutBefore(path, "/"), ":") THEN "./" ELSE "")
             \o path)
        \o (IF u.ForceQuery \/ u.RawQuery # "" THEN "?" \o u.RawQuery ELSE "")

String(u) == stringOf(u, stringPrefix(u), EscapedPath(u))

(***************************************************************************)
(* Package regexp, for the expressions the proxy uses: an optional '^', a  *)
(* sequence of literal characters and of bracketed classes of characters   *)
(* and ranges, each optionally repeated {n} times, and an optional '$'.    *)
(***************************************************************************)
\* Whether character c is in the class whose items (single characters and
\* ranges x-y) are the text cls.
RECURSIVE InClass(_, _)
InClass(cls, c) ==
    IF cls = "" THEN FALSE
    ELSE IF Len(cls) >= 3 /\ Char(cls, 2) = "-"
         THEN \/ (Ord(Char(cls, 1)) <= Ord(c) /\ Ord(c) <= Ord(Char(cls, 3)))
              \/ InClass(Drop(cls, 3), c)
    ELSE Char(cls, 1) = c \/ InClass(Drop(cls, 1), c)

\* The value of a decimal numeral.
RECURSIVE Atoi(_)
Atoi(s) ==
    IF s = "" THEN 0
    ELSE 10 * Atoi(Take(s, Len(s) - 1)) + (Index(Digits, Char(s, Len(s))) - 1)

\* Whether pattern pat, from its position i on, matches text s from its
\* position j on.
RECURSIVE MatchHere(_, _, _, _)
\* A class, whose ']' is at position close, repeated n times, the pattern
\* going on at position next.
MatchClass(pat, i, s, j, close, n, next) ==
    /\ j + n - 1 <= Len(s)
    /\ \A k \in j..(j + n - 1) : InClass(SubSeq(pat, i + 1, close - 1), Char(s, k))
    /\ MatchHere(pat, next, s, j + n)

\* A class followed by {n}, whose '}' is at position brace, or a class alone.
MatchBracket(pat, i, s, j, close, brace) ==
    IF close < Len(pat) /\ Char(pat, close + 1) = "{"
    THEN MatchClass(pat, i, s, j, close, Atoi(SubSeq(pat, close + 2, brace - 1)), brace + 1)
    ELSE MatchClass(pat, i, s, j, close, 1, close + 1)

\* The position at which the run of literal characters that starts at
\* position i of the pattern ends: before the next class or the final '$'.
LiteralEnd(pat, i) ==
    IF \E k \in i..Len(pat) : Char(pat, k) = "[" \/ (Char(pat, k) = "$" /\ k = Len(pat))
    THEN First({ k \in i..Len(pat) :
                   Char(pat, k) = "[" \/ (Char(pat, k) = "$" /\ k = Len(pat)) }) - 1
    ELSE Len(pat)

\* The literal characters of the pattern from position i to position e.
MatchLiteral(pat, i, s, j, e) ==
    /\ j + (e - i) <= Len(s)
    /\ SubSeq(s, j, j + (e - i)) = SubSeq(pat, i, e)
    /\ MatchHere(pat, e + 1, s, j + (e - i) + 1)

MatchHere(pat, i, s, j) ==
    IF i > Len(pat) THEN TRUE
    ELSE IF Char(pat, i) = "$" /\ i = Len(pat) THEN j > Len(s)
    ELSE IF Char(pat, i) = "["
         THEN MatchBracket(pat, i, s, j, IndexFrom(pat, "]", i), IndexFrom(pat, "}", i))
    ELSE MatchLiteral(pat, i, s, j, LiteralEnd(pat, i))

\* regexp.MatchString: whether the text contains a match of the pattern.
MatchString(pat, s) ==
    IF HasPrefix(pat, "^") THEN MatchHere(pat, 2, s, 1)
    ELSE \E j \in 1..(Len(s) + 1) : MatchHere(pat, 1, s, j)

(***************************************************************************)
(* cloud-server-auth: the authorization rule.                              *)
(***************************************************************************)
validPrefixes ==
    << "api/installation", "/api/installation",
       "api/cluster_installation", "/api/cluster_installation",
       "api/webhooks", "/api/webhooks",
       "/api/webhook", "api/webhook" >>

exactMatchRegexes ==
    << "^/api/security/installation/[a-zA-Z0-9]{26}/deletion/lock$",
       "^/api/security/installation/[a-zA-Z0-9]{26}/deletion/unlock$" >>

\* Variants of isAuthorized with a plausible bug each: a prefix must end a
\* path segment; the prefixes are compared without regard to case, and any
\* path of the security API passes; the identifier has 25 characters and the
\* expression is not anchored at its end.
isAuthorizedSegmentAware(url) ==
    \/ \E i \in 1..Len(validPrefixes) :
          /\ HasPrefix(EscapedPath(url), validPrefixes[i])
          /\ \/ Len(EscapedPath(url)) = Len(validPrefixes[i])
             \/ Char(EscapedPath(url), Len(validPrefixes[i]) + 1) = "/"
    \/ \E i \in 1..Len(exactMatchRegexes) : MatchString(exactMatchRegexes[i], EscapedPath(url))

isAuthorizedLoose(url) ==
    \/ \E i \in 1..Len(validPrefixes) :
          HasPrefix(ToLower(EscapedPath(url)), validPrefixes[i])
    \/ HasPrefix(EscapedPath(url), "/api/security/")

isAuthorizedUnanchored(url) ==
    \/ \E i \in 1..Len(validPrefixes) : HasPrefix(EscapedPath(url), validPrefixes[i])
    \/ MatchString("/api/security/installation/[a-zA-Z0-9]{26}/deletion/lock",
                   EscapedPath(url))
    \/ MatchString("/api/security/installation/[a-zA-Z0-9]{26}/deletion/unlock",
                   EscapedPath(url))

\* isAuthorized: the two loops, each returning true at its first hit.
isAuthorized(url) ==
    \/ \E i \in 1..Len(validPrefixes) : HasPrefix(EscapedPath(url), validPrefixes[i])
    \/ \E i \in 1..Len(exactMatchRegexes) : MatchString(exactMatchRegexes[i], EscapedPath(url))

(***************************************************************************)
(* Packages encoding/json and net/http, as far as the proxy uses them.     *)
(***************************************************************************)
\* The JSON encoding of the characters of a string (encoding/json escapes
\* '"', '\', the control characters and, by default, '<', '>' and '&').
RECURSIVE JSONChars(_)
JSONChars(s) ==
    IF s = "" THEN ""
    ELSE IF Len(s) = 1
         THEN (CASE s = "\"" -> "\\\""
                 [] s = "\\" -> "\\\\"
                 [] s = "\n" -> "\\n"
                 [] s = "\t" -> "\\t"
                 [] s = "<"  -> "\\u003c"
                 [] s = ">"  -> "\\u003e"
                 [] s = "&"  -> "\\u0026"
                 [] OTHER -> s)
    ELSE JSONChars(Take(s, Half(s))) \o JSONChars(Drop(s, Half(s)))

\* json.Marshal(errorResponse{Error: text})
MarshalErrorResponse(text) == "{\"error\":\"" \o JSONChars(text) \o "\"}"

\* A lexicographic comparison of strings by the codes of their characters.
RECURSIVE StrLess(_, _)
StrLess(a, b) ==
    IF b = "" THEN FALSE
    ELSE IF a = "" THEN TRUE
    ELSE IF Char(a, 1) = Char(b, 1) THEN StrLess(Drop(a, 1), Drop(b, 1))
    ELSE Ord(Char(a, 1)) < Ord(Char(b, 1))

RECURSIVE SortedKeys(_)
SortedKeys(S) ==
    IF S = {} THEN << >>
    ELSE LET m == CHOOSE x \in S : \A y \in S : x = y \/ StrLess(x, y)
         IN << m >> \o SortedKeys(S \ {m})

\* key=value&key=value for the values of one key, both query-escaped.
RECURSIVE EncodeKey(_, _)
EncodeKey(k, vs) ==
    IF vs = << >> THEN ""
    ELSE QueryEscape(k) \o "=" \o QueryEscape(Head(vs))
            \o (IF Tail(vs) = << >> THEN "" ELSE "&" \o EncodeKey(k, Tail(vs)))

RECURSIVE EncodeKeys(_, _)
EncodeKeys(v, keys) ==
    IF keys = << >> THEN ""
    ELSE EncodeKey(Head(keys), v[Head(keys)])
            \o (IF Tail(keys) = << >> THEN "" ELSE "&" \o EncodeKeys(v, Tail(keys)))

\* url.Values.Encode: the keys in sorted order, each with all its values.
Encode(v) == EncodeKeys(v, SortedKeys(DOMAIN v))

\* The url.Values that lines 336-339 build: one Add per entry of the
\* single-valued map request.QueryStringParameters.
queryValues(params) == [k \in DOMAIN params |-> << params[k] >>]

\* net/http validMethod: a non-empty token.
validMethod(method) ==
    /\ method # ""
    /\ \A i \in 1..Len(method) :
          Char(method, i) \in AlphaNum \/ Contains("!#$%&'*+-.^_|~", Char(method, i))

\* An empty header map.
NoHeader == [k \in {} |-> << >>]

\* The zero http.Request.
NoRequest == [Method |-> "", URL |-> EmptyURL, Header |-> NoHeader, Body |-> ""]

\* http.NewRequest(method, url, body), u being the parsed url: the method
\* must be a token and the url must parse; err is "" or the error's text.
newRequestWith(method, u, body) ==
    IF ~validMethod(method)
    THEN [err |-> "net/http: invalid method " \o Quote(method), req |-> NoRequest]
    ELSE IF u.err # ""
    THEN [err |-> u.err, req |-> NoRequest]
    ELSE [err |-> "",
          req |-> [Method |-> method, URL |-> u.url, Header |-> NoHeader, Body |-> body]]

\* A faulty http.NewRequest that makes every request a GET.
NewRequestAlwaysGet(method, urlStr, body) ==
    newRequestWith("GET", Parse(urlStr), body)

\* http.NewRequest: an empty method means GET.
NewRequest(method, urlStr, body) ==
    newRequestWith(IF method = "" THEN "GET" ELSE method, Parse(urlStr), body)

\* http.Header.Set: the key's values are replaced by the one value.
HeaderSet(h, key, value) ==
    [k \in DOMAIN h \cup {key} |-> IF k = key THEN << value >> ELSE h[k]]

\* urlErrorOp: the method with only its first letter in upper case.
urlErrorOp(method) ==
    IF method = "" THEN "Get" ELSE Take(method, 1) \o ToLower(Drop(method, 1))

\* The error (*http.Client).Do returns without sending anything, "" when the
\* request can be sent: the transport refuses a scheme that is not http or
\* https and a URL without a host.
doPreflightErr(req) ==
    IF req.URL.Scheme \notin {"http", "https"}
    THEN "unsupported protocol scheme " \o Quote(req.URL.Scheme)
    ELSE IF req.URL.Host = "" THEN "http: no Host in request URL"
    ELSE ""

\* The *url.Error that Do wraps every error in.
doError(req, text) ==
    urlErrorOp(req.Method) \o " " \o Quote(String(req.URL)) \o ": " \o text

(***************************************************************************)
(* cloud-server-auth: the process and its invocations.                     *)
(***************************************************************************)
VARIABLES
    bind,               \* the bind-server handler: its position, its event, retry's locals
    ami,                \* the AMI cleanup: its position, what EC2 holds, what it has removed
    sns,                \* the RDS failover alert handler: its records and what it has sent
    lb,                 \* the ELB alarm lambda's listAllLBs: the pages and the lists built
    rds,                \* the RDS alarm lambda: its event, the clusters, the alarms put
    grant,              \* the grant-privileges Handler: its rows, connections and GRANTs
    verdicts,           \* what isAuthorized has answered for the paths given to it before
    invocations,        \* how many invocations lambda.Start has handed to the handler
    env,                \* the environment variables CLOUD_SERVER and MATTERMOST_WEBHOOK
    config,             \* the *Config that loadConfig returned
    pc,                 \* where the process is
    request,            \* the events.APIGatewayProxyRequest of the invocation
    parsedCloudURL,     \* validateCloudRequest's locals
    parsedPath,
    final,
    authorized,         \* "none" until isAuthorized has returned, then "true" or "false"
    cloudServerRequest,
    resp,               \* the response client.Do returned
    failure,            \* the arguments statusCode and err of processFailedAuth
    webhookErr,         \* what sendToWebhook returned
    upstreamCalls,      \* the requests sent to the cloud server in this invocation
    webhookCalls,       \* the requests sent to the webhook in this invocation
    notifications,      \* the calls of sendToWebhook in this invocation
    response,           \* the events.APIGatewayProxyResponse returned
    err                 \* the error returned with it ("" is nil)

\* The peer lambdas before their handlers are called.
BindIdle ==
    [pc |-> "idle", detailType |-> "", vpcID |-> "",
     attempts |-> 0, sleep |-> 0, i |-> 0, err |-> "",      \* retry's arguments and locals
     retErr |-> "",                                         \* what retry returned ("" is nil)
     results |-> << >>,                                     \* what the calls of fn returned
     delays |-> << >>, slept |-> 0,                         \* the base delays, the time slept
     attached |-> 0,                                        \* interfaces attached
     completions |-> << >>]                                 \* CompleteLifecycleAction calls

AmiIdle ==
    [pc |-> "idle",
     uniqueUsedImages |-> { },          \* the image IDs of the instances
     oldImages |-> << >>, k |-> 0,      \* the images older than 730 hours, the loop's index
     snapshotIDs |-> << >>,             \* the snapshots still to delete for oldImages[k]
     deregisterCalls |-> << >>,         \* the ImageIds given to DeregisterImage
     deregistered |-> { },              \* the images DeregisterImage has removed
     deleteCalls |-> << >>,             \* the SnapshotIds given to DeleteSnapshot
     err |-> ""]                        \* what deleteAMIs returned ("" is nil)

SnsIdle ==
    [pc |-> "idle",
     environment |-> "", hook |-> "",   \* ENVIRONMENT and MATTERMOST_HOOK
     records |-> << >>, k |-> 0,        \* snsEvent.Records and the loop's index
     sent |-> << >>,                    \* the records whose notification send has posted
     paged |-> << >>]                   \* the records given to PagerDuty, and how

LbIdle ==
    [pc |-> "idle",
     v2Pages |-> << >>, classicPages |-> << >>,     \* the account's load balancers, by page
     lbs |-> << >>, classicELBs |-> << >>,          \* listAllLBs's two lists
     calls |-> 0,                                   \* the DescribeLoadBalancers calls made
     err |-> ""]                                    \* the error returned ("" is nil)

RdsIdle ==
    [pc |-> "idle",
     source |-> "", eventName |-> "",   \* event.Source and the detail's eventName
     cluster |-> "",                    \* requestParameters.dBClusterIdentifier
     clusters |-> << >>, k |-> 0,       \* what DescribeDBClusters returned, listRDS's index
     alarms |-> << >>,                  \* the clusters an alarm was put for
     deleted |-> << >>]                 \* the clusters DeleteAlarms was called for

GrantIdle ==
    [pc |-> "idle",
     excluded |-> "",                   \* EXCLUDED_CLUSTERS
     excludedClusters |-> { },          \* the package's excludedClusters
     schemaToDB |-> << >>,              \* the schemas with their logical database
     dbToCluster |-> << >>,             \* the logical databases with their cluster
     visited |-> { },                   \* the logical databases the loop has been through
     opened |-> { },                    \* the connections opened
     grants |-> { },                    \* the schemas GRANTs were executed on
     err |-> ""]                        \* what Handler returned ("" is nil)

\* The state outside the invocation of the proxy.
lambdas == << bind, ami, sns, lb, rds, grant >>

peers == << verdicts, lambdas >>

PeersIdle ==
    /\ verdicts = { }
    /\ bind = BindIdle
    /\ ami = AmiIdle
    /\ sns = SnsIdle
    /\ lb = LbIdle
    /\ rds = RdsIdle
    /\ grant = GrantIdle

vars == << peers, invocations, env, config, pc, request, parsedCloudURL, parsedPath, final, authorized,
           cloudServerRequest, resp, failure, webhookErr, upstreamCalls,
           webhookCalls, notifications, response, err >>

\* The invocations one process is followed through.
MaxInvocations == 2

StatusOK == 200

StatusBadRequest == 400

StatusUnauthorized == 401

StatusInternalServerError == 500

\* The values the two environment variables may have: unset, a usable URL
\* and a value that is not empty but does not parse as a URL.
CloudServerValues == { "", "http://cloud.internal:8075", "http://bad host" }

WebhookValues == { "", "https://chat.example/hooks/k", "https://chat example/hooks/k" }

\* Identifiers of 26, of 25 and of 27 alphanumeric characters.
ID26 == "A1b2C3d4E5f6G7h8I9j0KlMnOp"

ID25 == Take(ID26, 25)

ID27 == ID26 \o "q"

\* The paths of the inbound requests.
RequestPaths ==
    { "/api/installation",
      "/api/webhooks/foo",
      "api/cluster_installation/x",
      "/api/other",
      "/api/installation/../security/x",
      "/api/security/installation/" \o ID26 \o "/deletion/lock",
      "/api/security/installation/" \o ID25 \o "/deletion/lock",
      "//evil.example/api/installation",
      "https://evil.example/api/installation",
      "/%zz",
      "" }

RequestMethods == { "POST", "", "GE T" }

RequestBodies == { "", "{\"name\":\"a\"}" }

\* Multi-value query parameters and headers, as API Gateway delivers them; the
\* single-valued maps hold the last value of every key.
NoValues == [k \in {} |-> << >>]

RequestQueries == { NoValues, ("page" :> << "1" >>) @@ ("filter" :> << "a b", "c" >>) }

RequestHeaders ==
    { NoValues, ("Accept-Encoding" :> << "gzip" >>) @@ ("X-Token" :> << "s", "t" >>) }

LastValues(mv) == [k \in DOMAIN mv |-> mv[k][Len(mv[k])]]

Requests ==
    { [HTTPMethod |-> m, Path |-> p, Body |-> b, RequestID |-> "req-1",
       QueryStringParameters |-> LastValues(q),
       MultiValueQueryStringParameters |-> q,
       Headers |-> LastValues(h),
       MultiValueHeaders |-> h] :
         m \in RequestMethods, p \in RequestPaths, b \in RequestBodies,
         q \in RequestQueries, h \in RequestHeaders }

NoInboundRequest ==
    [HTTPMethod |-> "", Path |-> "", Body |-> "", RequestID |-> "",
     QueryStringParameters |-> NoValues, MultiValueQueryStringParameters |-> NoValues,
     Headers |-> NoValues, MultiValueHeaders |-> NoValues]

\* What client.Do on the cloud server's request may end in: a response with
\* any status (its body readable or failing while it is read), a refused
\* connection, or the client's timeout.
UpstreamOutcomes ==
    { [kind |-> "response", StatusCode |-> StatusOK, Body |-> "{\"id\":\"i1\"}",
       Header |-> ("Content-Type" :> << "application/json" >>), readErr |-> ""],
      [kind |-> "response", StatusCode |-> 503, Body |-> "{\"x\":1}",
       Header |-> ("Content-Type" :> << "text/plain" >>) @@ ("Retry-After" :> << "3" >>),
       readErr |-> ""],
      [kind |-> "response", StatusCode |-> StatusOK, Body |-> "", Header |-> NoValues,
       readErr |-> "unexpected EOF"],
      [kind |-> "error", text |-> "dial tcp: connect: connection refused"],
      [kind |-> "error",
       text |-> "context deadline exceeded (Client.Timeout exceeded while awaiting headers)"] }

NoResponse ==
    [kind |-> "none", StatusCode |-> 0, Body |-> "", Header |-> NoValues, readErr |-> ""]

\* What client.Do on the webhook's request may end in.
WebhookOutcomes ==
    { [kind |-> "response", StatusCode |-> StatusOK],
      [kind |-> "response", StatusCode |-> StatusInternalServerError],
      [kind |-> "error", text |-> "dial tcp: connect: connection refused"],
      [kind |-> "error",
       text |-> "context deadline exceeded (Client.Timeout exceeded while awaiting headers)"] }

NoConfig == [CloudServerURL |-> "", MattermostWebhookURL |-> ""]

NoFailure == [statusCode |-> 0, err |-> ""]

NoReturn == [StatusCode |-> 0, Headers |-> NoValues, Body |-> ""]

\* The state of an invocation before it starts.
Fresh ==
    /\ request = NoInboundRequest
    /\ parsedCloudURL = EmptyURL
    /\ parsedPath = EmptyURL
    /\ final = EmptyURL
    /\ authorized = "none"
    /\ cloudServerRequest = NoRequest
    /\ resp = NoResponse
    /\ failure = NoFailure
    /\ webhookErr = ""
    /\ upstreamCalls = << >>
    /\ webhookCalls = << >>
    /\ notifications = 0
    /\ response = NoReturn
    /\ err = ""

Init ==
    /\ env \in [CLOUD_SERVER : CloudServerValues, MATTERMOST_WEBHOOK : WebhookValues]
    /\ config = NoConfig
    /\ invocations = 0
    /\ PeersIdle
    /\ pc = "start"
    /\ Fresh

\* The proxy's variables, and their values in a process that is not the
\* proxy's.
core == << invocations, env, config, pc, request, parsedCloudURL, parsedPath, final,
           authorized, cloudServerRequest, resp, failure, webhookErr, upstreamCalls,
           webhookCalls, notifications, response, err >>

CoreIdle ==
    /\ env = [CLOUD_SERVER |-> "", MATTERMOST_WEBHOOK |-> ""]
    /\ config = NoConfig
    /\ invocations = 0
    /\ pc = "off"
    /\ Fresh

\* A peer lambda's process before its first event.
InitPeers == CoreIdle /\ PeersIdle

\* loadConfig and main (lines 305-320, 463-473): both variables must be set,
\* or the process ends in log.Fatalf; otherwise the handler is started.
loadConfig ==
    /\ pc = "start"
    /\ IF env.CLOUD_SERVER = "" \/ env.MATTERMOST_WEBHOOK = ""
       THEN pc' = "fatal" /\ config' = config
       ELSE /\ config' = [CloudServerURL |-> env.CLOUD_SERVER,
                          MattermostWebhookURL |-> env.MATTERMOST_WEBHOOK]
            /\ pc' = "idle"
    /\ UNCHANGED << peers, invocations, env, request, parsedCloudURL, parsedPath, final, authorized,
                    cloudServerRequest, resp, failure, webhookErr, upstreamCalls,
                    webhookCalls, notifications, response, err >>

\* The Lambda runtime calls the handler with a request (lines 470-472).
Invoke ==
    /\ pc = "idle"
    /\ invocations < MaxInvocations
    /\ invocations' = invocations + 1
    /\ \E r \in Requests : request' = r
    /\ pc' = "parseCloudURL"
    /\ UNCHANGED << peers, env, config, parsedCloudURL, parsedPath, final, authorized,
                    cloudServerRequest, resp, failure, webhookErr, upstreamCalls,
                    webhookCalls, notifications, response, err >>

\* return processFailedAuth(config, request, statusCode, err)
callProcessFailedAuth(statusCode, e) ==
    /\ failure' = [statusCode |-> statusCode, err |-> e]
    /\ pc' = "processFailedAuth"

\* Lines 323-326.
ParseCloudURL ==
    /\ pc = "parseCloudURL"
    /\ LET r == Parse(config.CloudServerURL)
       IN IF r.err # ""
          THEN /\ callProcessFailedAuth(StatusInternalServerError,
                      "cloud server URL " \o config.CloudServerURL \o " is invalid: " \o r.err)
               /\ parsedCloudURL' = parsedCloudURL
          ELSE /\ parsedCloudURL' = r.url
               /\ pc' = "parsePath"
               /\ failure' = failure
    /\ UNCHANGED << peers, invocations, env, config, request, parsedPath, final, authorized,
                    cloudServerRequest, resp, webhookErr, upstreamCalls,
                    webhookCalls, notifications, response, err >>

\* A faulty ParsePath that reports an unparsable path as an internal error.
ParsePathInternalError ==
    /\ pc = "parsePath"
    /\ LET r == Parse(request.Path)
       IN IF r.err # ""
          THEN /\ callProcessFailedAuth(StatusInternalServerError, r.err)
               /\ parsedPath' = parsedPath
          ELSE /\ parsedPath' = r.url
               /\ pc' = "resolve"
               /\ failure' = failure
    /\ UNCHANGED << peers, invocations, env, config, request, parsedCloudURL, final, authorized,
                    cloudServerRequest, resp, webhookErr, upstreamCalls,
                    webhookCalls, notifications, response, err >>

\* Lines 331-334.
ParsePath ==
    /\ pc = "parsePath"
    /\ LET r == Parse(request.Path)
       IN IF r.err # ""
          THEN /\ callProcessFailedAuth(StatusBadRequest, r.err)
               /\ parsedPath' = parsedPath
          ELSE /\ parsedPath' = r.url
               /\ pc' = "resolve"
               /\ failure' = failure
    /\ UNCHANGED << peers, invocations, env, config, request, parsedCloudURL, final, authorized,
                    cloudServerRequest, resp, webhookErr, upstreamCalls,
                    webhookCalls, notifications, response, err >>

\* Lines 336-342: the query parameters replace the query of the parsed path,
\* which is then resolved against the cloud server's URL.
Resolve ==
    /\ pc = "resolve"
    /\ parsedPath' = [parsedPath EXCEPT
                         !.RawQuery = Encode(queryValues(request.QueryStringParameters))]
    /\ final' = ResolveReference(parsedCloudURL, parsedPath')
    /\ pc' = "authorize"
    /\ UNCHANGED << peers, invocations, env, config, request, parsedCloudURL, authorized,
                    cloudServerRequest, resp, failure, webhookErr, upstreamCalls,
                    webhookCalls, notifications, response, err >>

\* A faulty Authorize that goes on to the cloud server whatever isAuthorized
\* has returned.
AuthorizeUnchecked ==
    /\ pc = "authorize"
    /\ authorized' = IF isAuthorized(final) THEN "true" ELSE "false"
    /\ pc' = "newRequest"
    /\ failure' = failure
    /\ UNCHANGED << peers, invocations, env, config, request, parsedCloudURL, parsedPath, final,
                    cloudServerRequest, resp, webhookErr, upstreamCalls,
                    webhookCalls, notifications, response, err >>

\* A faulty isAuthorized with a flag of the package that the first accepted
\* path sets: once it is set, every path is accepted.
AuthorizeOnceAllowed ==
    /\ pc = "authorize"
    /\ IF ~(isAuthorized(final) \/ \E v \in verdicts : v[2])
       THEN /\ authorized' = "false"
            /\ callProcessFailedAuth(StatusUnauthorized,
                   EscapedPath(final) \o " is not an authorized path")
       ELSE /\ authorized' = "true"
            /\ pc' = "newRequest"
            /\ failure' = failure
    /\ UNCHANGED << peers, invocations, env, config, request, parsedCloudURL, parsedPath, final,
                    cloudServerRequest, resp, webhookErr, upstreamCalls,
                    webhookCalls, notifications, response, err >>

\* Lines 343-345.
Authorize ==
    /\ pc = "authorize"
    /\ IF ~isAuthorized(final)
       THEN /\ authorized' = "false"
            /\ callProcessFailedAuth(StatusUnauthorized,
                   EscapedPath(final) \o " is not an authorized path")
       ELSE /\ authorized' = "true"
            /\ pc' = "newRequest"
            /\ failure' = failure
    /\ UNCHANGED << peers, invocations, env, config, request, parsedCloudURL, parsedPath, final,
                    cloudServerRequest, resp, webhookErr, upstreamCalls,
                    webhookCalls, notifications, response, err >>

\* A faulty BuildRequest that makes the inbound request's header map the
\* header of the outbound request, so that Header.Set writes into the inbound
\* request.
BuildRequestSharingHeaders ==
    /\ pc = "newRequest"
    /\ LET r == NewRequest(request.HTTPMethod, String(final), request.Body)
       IN IF r.err # ""
          THEN /\ callProcessFailedAuth(StatusInternalServerError, r.err)
               /\ cloudServerRequest' = cloudServerRequest
               /\ request' = request
          ELSE /\ cloudServerRequest' =
                      [r.req EXCEPT !.Header =
                          HeaderSet(request.MultiValueHeaders, "Accept-Encoding", "")]
               /\ request' =
                      [request EXCEPT !.MultiValueHeaders =
                          HeaderSet(request.MultiValueHeaders, "Accept-Encoding", "")]
               /\ pc' = "do"
               /\ failure' = failure
    /\ UNCHANGED << peers, invocations, env, config, parsedCloudURL, parsedPath, final, authorized,
                    resp, webhookErr, upstreamCalls, webhookCalls, notifications,
                    response, err >>

\* Lines 349-353: the request to the cloud server, with the inbound method
\* and body, and its Accept-Encoding header set to the empty value.
BuildRequest ==
    /\ pc = "newRequest"
    /\ LET r == NewRequest(request.HTTPMethod, String(final), request.Body)
       IN IF r.err # ""
          THEN /\ callProcessFailedAuth(StatusInternalServerError, r.err)
               /\ cloudServerRequest' = cloudServerRequest
          ELSE /\ cloudServerRequest' =
                      [r.req EXCEPT !.Header = HeaderSet(r.req.Header, "Accept-Encoding", "")]
               /\ pc' = "do"
               /\ failure' = failure
    /\ UNCHANGED << peers, invocations, env, config, request, parsedCloudURL, parsedPath, final, authorized,
                    resp, webhookErr, upstreamCalls, webhookCalls, notifications,
                    response, err >>

\* A faulty Do whose client has no timeout: a call that nothing answers
\* never returns.
DoWithoutTimeout ==
    /\ pc = "do"
    /\ IF doPreflightErr(cloudServerRequest) # ""
       THEN /\ callProcessFailedAuth(StatusInternalServerError,
                   "failed when making request to cloud server: "
                       \o doError(cloudServerRequest, doPreflightErr(cloudServerRequest)))
            /\ UNCHANGED << upstreamCalls, resp >>
       ELSE /\ upstreamCalls' = Append(upstreamCalls, cloudServerRequest)
            /\ \E o \in UpstreamOutcomes :
                  IF o.kind = "error"
                  THEN IF HasSuffix(o.text, "(Client.Timeout exceeded while awaiting headers)")
                       THEN pc' = "blocked" /\ UNCHANGED << failure, resp >>
                       ELSE /\ callProcessFailedAuth(StatusInternalServerError,
                                   "failed when making request to cloud server: "
                                       \o doError(cloudServerRequest, o.text))
                            /\ resp' = resp
                  ELSE /\ resp' = o
                       /\ pc' = "readBody"
                       /\ failure' = failure
    /\ UNCHANGED << peers, invocations, env, config, request, parsedCloudURL, parsedPath, final, authorized,
                    cloudServerRequest, webhookErr, webhookCalls, notifications,
                    response, err >>

\* A faulty Do that sends the request a second time when the first attempt
\* has ended in a transport error or a timeout.
DoRetrying ==
    /\ pc = "do"
    /\ IF doPreflightErr(cloudServerRequest) # ""
       THEN /\ callProcessFailedAuth(StatusInternalServerError,
                   "failed when making request to cloud server: "
                       \o doError(cloudServerRequest, doPreflightErr(cloudServerRequest)))
            /\ UNCHANGED << upstreamCalls, resp >>
       ELSE \E first \in UpstreamOutcomes, o \in UpstreamOutcomes :
               /\ upstreamCalls' =
                      IF first.kind = "error"
                      THEN Append(Append(upstreamCalls, cloudServerRequest),
                                  cloudServerRequest)
                      ELSE Append(upstreamCalls, cloudServerRequest)
               /\ IF o.kind = "error"
                  THEN /\ callProcessFailedAuth(StatusInternalServerError,
                              "failed when making request to cloud server: "
                                  \o doError(cloudServerRequest, o.text))
                       /\ resp' = resp
                  ELSE /\ resp' = o
                       /\ pc' = "readBody"
                       /\ failure' = failure
    /\ UNCHANGED << peers, invocations, env, config, request, parsedCloudURL, parsedPath, final, authorized,
                    cloudServerRequest, webhookErr, webhookCalls, notifications,
                    response, err >>

\* Lines 355-359: client.Do either refuses the request, or sends it and ends
\* in a response or in a transport error (the 10 s timeout is one).
Do ==
    /\ pc = "do"
    /\ IF doPreflightErr(cloudServerRequest) # ""
       THEN /\ callProcessFailedAuth(StatusInternalServerError,
                   "failed when making request to cloud server: "
                       \o doError(cloudServerRequest, doPreflightErr(cloudServerRequest)))
            /\ UNCHANGED << upstreamCalls, resp >>
       ELSE /\ upstreamCalls' = Append(upstreamCalls, cloudServerRequest)
            /\ \E o \in UpstreamOutcomes :
                  IF o.kind = "error"
                  THEN /\ callProcessFailedAuth(StatusInternalServerError,
                              "failed when making request to cloud server: "
                                  \o doError(cloudServerRequest, o.text))
                       /\ resp' = resp
                  ELSE /\ resp' = o
                       /\ pc' = "readBody"
                       /\ failure' = failure
    /\ UNCHANGED << peers, invocations, env, config, request, parsedCloudURL, parsedPath, final, authorized,
                    cloudServerRequest, webhookErr, webhookCalls, notifications,
                    response, err >>

\* Lines 366-369: io.ReadAll(resp.Body).
ReadBody ==
    /\ pc = "readBody"
    /\ IF resp.readErr # ""
       THEN callProcessFailedAuth(StatusInternalServerError,
                "failed to read cloud server response body: " \o resp.readErr)
       ELSE pc' = "success" /\ failure' = failure
    /\ UNCHANGED << peers, invocations, env, config, request, parsedCloudURL, parsedPath, final, authorized,
                    cloudServerRequest, resp, webhookErr, upstreamCalls, webhookCalls,
                    notifications, response, err >>

\* A faulty ReturnResponse that hands on the Content-Type of the cloud
\* server's response when it has one.
ReturnResponseUpstreamContentType ==
    /\ pc = "success"
    /\ response' = [StatusCode |-> resp.StatusCode,
                    Headers |-> ("Content-Type" :>
                                    (IF "Content-Type" \in DOMAIN resp.Header
                                     THEN resp.Header["Content-Type"][1]
                                     ELSE "application/json")),
                    Body |-> resp.Body]
    /\ err' = ""
    /\ pc' = "returned"
    /\ UNCHANGED << peers, invocations, env, config, request, parsedCloudURL, parsedPath, final, authorized,
                    cloudServerRequest, resp, failure, webhookErr, upstreamCalls,
                    webhookCalls, notifications >>

\* A faulty ReturnResponse that answers 200 whatever the cloud server's status.
ReturnResponseAlwaysOK ==
    /\ pc = "success"
    /\ response' = [StatusCode |-> StatusOK,
                    Headers |-> ("Content-Type" :> "application/json"),
                    Body |-> resp.Body]
    /\ err' = ""
    /\ pc' = "returned"
    /\ UNCHANGED << peers, invocations, env, config, request, parsedCloudURL, parsedPath, final, authorized,
                    cloudServerRequest, resp, failure, webhookErr, upstreamCalls,
                    webhookCalls, notifications >>

\* Lines 371-377: the cloud server's status and body, and a nil error.
ReturnResponse ==
    /\ pc = "success"
    /\ response' = [StatusCode |-> resp.StatusCode,
                    Headers |-> ("Content-Type" :> "application/json"),
                    Body |-> resp.Body]
    /\ err' = ""
    /\ pc' = "returned"
    /\ UNCHANGED << peers, invocations, env, config, request, parsedCloudURL, parsedPath, final, authorized,
                    cloudServerRequest, resp, failure, webhookErr, upstreamCalls,
                    webhookCalls, notifications >>

\* The decimal numeral of a natural number (fmt's %d).
RECURSIVE Itoa(_)
Itoa(n) ==
    IF n < 10 THEN Char(Digits, n + 1)
    ELSE Itoa(n \div 10) \o Char(Digits, (n % 10) + 1)

mattermostWebhookIconURL ==
    "https://images2.minutemediacdn.com/image/upload/c_fill,g_auto,h_1248,w_2220/f_auto,q_auto,w_1100/v1555925520/shape/mentalfloss/800px-princesslineup.jpg"

\* The webhookRequest of lines 424-438.  Text is the message of line 424;
\* CodeBlock is the request body that lines 430-432 append to it as a fenced
\* code block when it is not empty (the fence is three grave accents, which
\* a TLA+ string cannot hold).
webhookPayload(req, e) ==
    [Username |-> "Cloud Auth",
     IconURL  |-> mattermostWebhookIconURL,
     Text     |-> "Cloud Auth Failure\n---\nError: " \o e \o "\nMethod: " \o req.HTTPMethod
                     \o "\nPath: " \o req.Path \o "\nRequest ID: " \o req.RequestID \o "\n",
     CodeBlock |-> req.Body]

\* sendToWebhook's result for an outcome of client.Do (lines 451-460).
webhookResult(httpRequest, o) ==
    IF o.kind = "error" THEN doError(httpRequest, o.text)
    ELSE IF o.StatusCode # StatusOK THEN "received status code " \o Itoa(o.StatusCode)
    ELSE ""

\* A faulty sendToWebhook that sends the POST a second time when the first
\* one has failed.
SendToWebhookRetrying ==
    /\ pc = "processFailedAuth"
    /\ notifications' = notifications + 1
    /\ LET r == NewRequest("POST", config.MattermostWebhookURL,
                           webhookPayload(request, failure.err))
       IN IF r.err # ""
          THEN webhookErr' = r.err /\ webhookCalls' = webhookCalls
          ELSE IF doPreflightErr(r.req) # ""
          THEN /\ webhookErr' = doError(r.req, doPreflightErr(r.req))
               /\ webhookCalls' = webhookCalls
          ELSE \E o \in WebhookOutcomes :
                  /\ webhookErr' = webhookResult(r.req, o)
                  /\ webhookCalls' = IF webhookResult(r.req, o) = ""
                                     THEN Append(webhookCalls, r.req)
                                     ELSE Append(Append(webhookCalls, r.req), r.req)
    /\ pc' = "errorResponse"
    /\ UNCHANGED << peers, invocations, env, config, request, parsedCloudURL, parsedPath, final, authorized,
                    cloudServerRequest, resp, failure, upstreamCalls, response, err >>

\* processFailedAuth's call of sendToWebhook (lines 409-413, 423-461): the
\* POST is built and sent once, whatever comes of it, and its error is only
\* logged.
SendToWebhook ==
    /\ pc = "processFailedAuth"
    /\ notifications' = notifications + 1
    /\ LET r == NewRequest("POST", config.MattermostWebhookURL,
                           webhookPayload(request, failure.err))
       IN IF r.err # ""
          THEN webhookErr' = r.err /\ webhookCalls' = webhookCalls
          ELSE IF doPreflightErr(r.req) # ""
          THEN /\ webhookErr' = doError(r.req, doPreflightErr(r.req))
               /\ webhookCalls' = webhookCalls
          ELSE /\ webhookCalls' = Append(webhookCalls, r.req)
               /\ \E o \in WebhookOutcomes : webhookErr' = webhookResult(r.req, o)
    /\ pc' = "errorResponse"
    /\ UNCHANGED << peers, invocations, env, config, request, parsedCloudURL, parsedPath, final, authorized,
                    cloudServerRequest, resp, failure, upstreamCalls, response, err >>

\* A faulty processFailedAuth in which the webhook's error, when there is
\* one, takes the place of the error it was given.
ReturnErrorMasked ==
    /\ pc = "errorResponse"
    /\ response' = [StatusCode |-> IF webhookErr # "" THEN StatusInternalServerError
                                   ELSE failure.statusCode,
                    Headers |-> NoValues,
                    Body |-> MarshalErrorResponse(IF webhookErr # "" THEN webhookErr
                                                  ELSE failure.err)]
    /\ err' = IF webhookErr # "" THEN webhookErr ELSE failure.err
    /\ pc' = "returned"
    /\ UNCHANGED << peers, invocations, env, config, request, parsedCloudURL, parsedPath, final, authorized,
                    cloudServerRequest, resp, failure, webhookErr, upstreamCalls,
                    webhookCalls, notifications >>

\* A faulty processFailedAuth that returns the error response with a nil
\* error.
ReturnErrorNil ==
    /\ pc = "errorResponse"
    /\ response' = [StatusCode |-> failure.statusCode,
                    Headers |-> NoValues,
                    Body |-> MarshalErrorResponse(failure.err)]
    /\ err' = ""
    /\ pc' = "returned"
    /\ UNCHANGED << peers, invocations, env, config, request, parsedCloudURL, parsedPath, final, authorized,
                    cloudServerRequest, resp, failure, webhookErr, upstreamCalls,
                    webhookCalls, notifications >>

\* processFailedAuth's return (lines 415-420): the status it was given, the
\* error it was given as the JSON body, no headers, and the error itself.
ReturnError ==
    /\ pc = "errorResponse"
    /\ response' = [StatusCode |-> failure.statusCode,
                    Headers |-> NoValues,
                    Body |-> MarshalErrorResponse(failure.err)]
    /\ err' = failure.err
    /\ pc' = "returned"
    /\ UNCHANGED << peers, invocations, env, config, request, parsedCloudURL, parsedPath, final, authorized,
                    cloudServerRequest, resp, failure, webhookErr, upstreamCalls,
                    webhookCalls, notifications >>

\* What processFailedAuth(config, request, statusCode, err) returns (lines
\* 415-420), with the requests that have gone to the cloud server.
failedAuth(statusCode, e, calls) ==
    [response |-> [StatusCode |-> statusCode,
                   Headers |-> NoValues,
                   Body |-> MarshalErrorResponse(e)],
     err |-> e,
     upstreamCalls |-> calls]

\* Lines 336-342: the URL the request goes to.
finalURL(cfg, req) ==
    ResolveReference(Parse(cfg.CloudServerURL).url,
                     [Parse(req.Path).url EXCEPT
                         !.RawQuery = Encode(queryValues(req.QueryStringParameters))])

\* Lines 355-377 for the request r and the outcome o of client.Do on it.
sendRequest(r, o) ==
    IF doPreflightErr(r) # ""
    THEN failedAuth(StatusInternalServerError,
                    "failed when making request to cloud server: "
                        \o doError(r, doPreflightErr(r)), << >>)
    ELSE IF o.kind = "error"
    THEN failedAuth(StatusInternalServerError,
                    "failed when making request to cloud server: " \o doError(r, o.text),
                    << r >>)
    ELSE IF o.readErr # ""
    THEN failedAuth(StatusInternalServerError,
                    "failed to read cloud server response body: " \o o.readErr, << r >>)
    ELSE [response |-> [StatusCode |-> o.StatusCode,
                        Headers |-> ("Content-Type" :> "application/json"),
                        Body |-> o.Body],
          err |-> "",
          upstreamCalls |-> << r >>]

\* Lines 343-353 for the resolved URL u.
authorizeAndSend(req, u, o) ==
    IF ~isAuthorized(u)
    THEN failedAuth(StatusUnauthorized, EscapedPath(u) \o " is not an authorized path", << >>)
    ELSE IF NewRequest(req.HTTPMethod, String(u), req.Body).err # ""
    THEN failedAuth(StatusInternalServerError,
                    NewRequest(req.HTTPMethod, String(u), req.Body).err, << >>)
    ELSE sendRequest([NewRequest(req.HTTPMethod, String(u), req.Body).req EXCEPT
                         !.Header = HeaderSet(@, "Accept-Encoding", "")], o)

\* validateCloudRequest(config, request) (lines 322-378) as a function of its
\* two arguments and of the outcome o of the one call of client.Do it may
\* make: what it returns, and what it sends to the cloud server, when it works
\* on its arguments and its own locals alone.
validateCloudRequest(cfg, req, o) ==
    IF Parse(cfg.CloudServerURL).err # ""
    THEN failedAuth(StatusInternalServerError,
                    "cloud server URL " \o cfg.CloudServerURL \o " is invalid: "
                        \o Parse(cfg.CloudServerURL).err, << >>)
    ELSE IF Parse(req.Path).err # ""
    THEN failedAuth(StatusBadRequest, Parse(req.Path).err, << >>)
    ELSE authorizeAndSend(req, finalURL(cfg, req), o)

\* A faulty process that keeps the cloud server's last response and the
\* requests it has sent in variables of the package: they outlive the
\* invocation that wrote them.
FinishKeepingCalls ==
    /\ pc = "returned"
    /\ pc' = "idle"
    /\ request' = NoInboundRequest
    /\ parsedCloudURL' = EmptyURL
    /\ parsedPath' = EmptyURL
    /\ final' = EmptyURL
    /\ authorized' = "none"
    /\ cloudServerRequest' = NoRequest
    /\ failure' = NoFailure
    /\ webhookErr' = ""
    /\ webhookCalls' = << >>
    /\ notifications' = 0
    /\ response' = NoReturn
    /\ err' = ""
    /\ UNCHANGED << peers, invocations, env, config, resp, upstreamCalls >>

\* The invocation is over and its values are gone; the process waits for the
\* next request.
Finish ==
    /\ pc = "returned"
    /\ pc' = "idle"
    /\ request' = NoInboundRequest
    /\ parsedCloudURL' = EmptyURL
    /\ parsedPath' = EmptyURL
    /\ final' = EmptyURL
    /\ authorized' = "none"
    /\ cloudServerRequest' = NoRequest
    /\ resp' = NoResponse
    /\ failure' = NoFailure
    /\ webhookErr' = ""
    /\ upstreamCalls' = << >>
    /\ webhookCalls' = << >>
    /\ notifications' = 0
    /\ response' = NoReturn
    /\ err' = ""
    /\ UNCHANGED << peers, invocations, env, config >>

Next ==
    \/ loadConfig
    \/ Invoke
    \/ ParseCloudURL
    \/ ParsePath
    \/ Resolve
    \/ Authorize
    \/ BuildRequest
    \/ Do
    \/ ReadBody
    \/ ReturnResponse
    \/ SendToWebhook
    \/ ReturnError
    \/ Finish

Spec == Init /\ [][Next]_vars

\* The positions inside validateCloudRequest and processFailedAuth, and all
\* the positions of the process.
StepPositions ==
    { "parseCloudURL", "parsePath", "resolve", "authorize", "newRequest", "do",
      "readBody", "success", "processFailedAuth", "errorResponse" }

Positions == StepPositions \cup { "start", "fatal", "idle", "returned" }

\* The handler leaves the position it is at.  At each of these positions the
\* step of the code is conditioned on nothing but the position; the code
\* between two calls runs on, and each of the two calls of client.Do, the
\* reading of the response body included, ends within its client's Timeout
\* (10 s at line 355, 5 s at line 450): the handler does not stay at a
\* position for ever.
Advance ==
    /\ pc \in StepPositions
    /\ pc' \in Positions

SpecLive == Init /\ [][Next]_vars /\ WF_pc(Advance)

(***************************************************************************)
(* isAuthorized on its own: it is given the URL of every path of AuthPaths *)
(* in turn, by the same step (Authorize) that the handler takes.           *)
(***************************************************************************)
\* Path beginnings: the eight prefixes, and beginnings that differ from them
\* in case, in length, in a character or in what precedes them.
AuthHeads ==
    { validPrefixes[i] : i \in 1..Len(validPrefixes) }
        \cup { "/api/other", "/API/INSTALLATION", "/Api/Installation", "api/Webhooks",
               "/api/install", "/api/web", "/api/cluster-installation",
               "/v1/api/installation", "x/api/webhook", "/api/%69nstallation",
               "/api/security/installation", "/api", "" }

AuthTails == { "", "/", "/abc", "2", "X", "s/abc/x" }

LockHeads == { "", "/x", "x", "/api/webhook" }

\* Identifiers: 26, 25 and 27 alphanumeric characters, and 26 characters one
\* of which is not alphanumeric.
LockIDs == { ID26, ID25, ID27, "A1b2C3d4E5f6-7h8I9j0KlMnOp", "A1b2C3d4E5f6/7h8I9j0KlMnOp" }

LockOps == { "lock", "unlock" }

LockTails == { "", "/", "x", "/unlock" }

LockPath(head, id, op, tail) ==
    head \o "/api/security/installation/" \o id \o "/deletion/" \o op \o tail

AuthPaths ==
    { h \o t : h \in AuthHeads, t \in AuthTails }
        \cup { LockPath(h, id, op, t) :
                  h \in LockHeads, id \in LockIDs, op \in LockOps, t \in LockTails }
        \cup { "/api/security/installation/" \o ID26 \o "/deletion",
               "/api/security/installation/" \o ID26 \o "/deletion/relock",
               "/api/security/installation/" \o ID26 \o "/Deletion/lock",
               "/api/security/cluster/" \o ID26 \o "/deletion/lock" }

InitAuth ==
    /\ env = [CLOUD_SERVER |-> "", MATTERMOST_WEBHOOK |-> ""]
    /\ config = NoConfig
    /\ invocations = 0
    /\ PeersIdle
    /\ pc = "authInput"
    /\ Fresh

\* A URL is parsed from a path and handed to isAuthorized.
AuthInput ==
    /\ pc = "authInput"
    /\ \E p \in AuthPaths :
          /\ Parse(p).err = ""
          /\ final' = Parse(p).url
    /\ pc' = "authorize"
    /\ UNCHANGED << peers, invocations, env, config, request, parsedCloudURL, parsedPath, authorized,
                    cloudServerRequest, resp, failure, webhookErr, upstreamCalls,
                    webhookCalls, notifications, response, err >>

\* The paths whose results are kept, to be compared with the results of later
\* evaluations of the same paths.
WatchedPaths ==
    { "/api/installation", "/api/other", LockPath("", ID26, "lock", "") }

\* The result was seen and, for a watched path, kept; the next URL may be
\* given.
AuthDone ==
    /\ authorized # "none"
    /\ verdicts' = IF EscapedPath(final) \in WatchedPaths
                   THEN verdicts \cup { << EscapedPath(final), authorized = "true" >> }
                   ELSE verdicts
    /\ pc' = "authInput"
    /\ final' = EmptyURL
    /\ authorized' = "none"
    /\ failure' = NoFailure
    /\ UNCHANGED << lambdas, invocations, env, config, request, parsedCloudURL, parsedPath,
                    cloudServerRequest, resp, webhookErr, upstreamCalls,
                    webhookCalls, notifications, response, err >>

NextAuth ==
    \/ AuthInput
    \/ Authorize
    \/ AuthDone

SpecAuth == InitAuth /\ [][NextAuth]_vars

(***************************************************************************)
(* The bind-server lambda (src/grafana-aws-metrics/go.mod, lines 20-242):  *)
(* on the launch of an instance it attaches a network interface, trying    *)
(* five times, and completes the lifecycle action.  Durations are in       *)
(* seconds.                                                                *)
(***************************************************************************)
LaunchAction == "EC2 Instance-launch Lifecycle Action"

DetailTypes ==
    { LaunchAction, "EC2 Instance-terminate Lifecycle Action", "EC2 Instance Launch Successful" }

\* What getVpcSubNetID may end in (lines 224-242): the VPC of the instance,
\* an error of the session or of DescribeInstances, or an instance described
\* without a VPC (it has been terminated), whose nil VpcId line 241
\* dereferences.
VpcOutcomes == { "vpc-1", "error", "nil VpcId" }

\* What fn, the function literal of lines 64-79, may return: nil, the error
\* of getNetWorkInterface or the error of attachInterface.
FnResults == { "", "no Network Interface available", "AttachNetworkInterface: OperationNotPermitted" }

\* What completeLifecycleActionSuccess and completeLifecycleActionFailure
\* may end in (lines 108-156): the call is made and succeeds, the session
\* fails before the call, or the call fails.
CompleteOutcomes == { "ok", "session error", "call error" }

\* handler, lines 47-51: only the launch action is handled.
BindReceive ==
    /\ bind.pc = "idle"
    /\ \E d \in DetailTypes :
          bind' = [bind EXCEPT !.detailType = d,
                               !.pc = IF d = LaunchAction THEN "getVpcSubNetID" ELSE "done"]
    /\ UNCHANGED << core, verdicts, ami, sns, lb, rds, grant >>

\* Lines 53-64: on an error the action is abandoned; otherwise retry is
\* called with five attempts and a delay of two seconds.
GetVpcSubNetID ==
    /\ bind.pc = "getVpcSubNetID"
    /\ \E o \in VpcOutcomes :
          bind' = IF o = "nil VpcId" THEN [bind EXCEPT !.pc = "panicked"]
                  ELSE IF o = "error" THEN [bind EXCEPT !.pc = "completeFailure"]
                  ELSE [bind EXCEPT !.vpcID = o, !.attempts = 5, !.sleep = 2, !.i = 0,
                                    !.pc = "retry"]
    /\ UNCHANGED << core, verdicts, ami, sns, lb, rds, grant >>

\* A faulty retry whose loop runs while i <= attempts.
RetryAttemptOnceMore ==
    /\ bind.pc = "retry"
    /\ IF bind.i <= bind.attempts
       THEN \E r \in FnResults :
               bind' = [bind EXCEPT !.results = Append(@, r),
                                    !.attached = IF r = "" THEN @ + 1 ELSE @,
                                    !.err = r,
                                    !.retErr = "",
                                    !.pc = IF r = "" THEN "retryReturned" ELSE "sleep"]
       ELSE bind' = [bind EXCEPT
                        !.retErr = "after " \o Itoa(bind.attempts) \o " attempts, last error: "
                                       \o (IF bind.err = "" THEN "%!s(<nil>)" ELSE bind.err),
                        !.pc = "retryReturned"]
    /\ UNCHANGED << core, verdicts, ami, sns, lb, rds, grant >>

\* retry, lines 97-100 and 105: while i < attempts fn is called, and its nil
\* ends retry with nil; after the loop the error names the last failure.
RetryAttempt ==
    /\ bind.pc = "retry"
    /\ IF bind.i < bind.attempts
       THEN \E r \in FnResults :
               bind' = [bind EXCEPT !.results = Append(@, r),
                                    !.attached = IF r = "" THEN @ + 1 ELSE @,
                                    !.err = r,
                                    !.retErr = "",
                                    !.pc = IF r = "" THEN "retryReturned" ELSE "sleep"]
       ELSE bind' = [bind EXCEPT
                        !.retErr = "after " \o Itoa(bind.attempts) \o " attempts, last error: "
                                       \o (IF bind.err = "" THEN "%!s(<nil>)" ELSE bind.err),
                        !.pc = "retryReturned"]
    /\ UNCHANGED << core, verdicts, ami, sns, lb, rds, grant >>

\* retry, lines 101-103: the delay and a jitter below it are slept, and the
\* delay is doubled (rand.Int63n panics when its argument is not positive).
RetrySleep ==
    /\ bind.pc = "sleep"
    /\ IF bind.sleep <= 0
       THEN bind' = [bind EXCEPT !.pc = "panicked"]
       ELSE \E jitter \in 0..(bind.sleep - 1) :
               bind' = [bind EXCEPT !.delays = Append(@, bind.sleep),
                                    !.slept = @ + bind.sleep + jitter,
                                    !.sleep = bind.sleep * 2,
                                    !.i = @ + 1,
                                    !.pc = "retry"]
    /\ UNCHANGED << core, verdicts, ami, sns, lb, rds, grant >>

\* Lines 56-60 and 81-91: ABANDON after an error, CONTINUE after nil; an
\* error of the completion is logged and the handler returns.
CompleteLifecycleAction ==
    /\ bind.pc \in { "completeFailure", "retryReturned" }
    /\ \E o \in CompleteOutcomes :
          bind' = [bind EXCEPT
                      !.completions =
                          IF o = "session error" THEN @
                          ELSE Append(@, [result |-> IF bind.pc = "completeFailure"
                                                         \/ bind.retErr # ""
                                                     THEN "ABANDON" ELSE "CONTINUE",
                                          ok |-> (o = "ok")]),
                      !.pc = "done"]
    /\ UNCHANGED << core, verdicts, ami, sns, lb, rds, grant >>

NextBind ==
    \/ BindReceive
    \/ GetVpcSubNetID
    \/ RetryAttempt
    \/ RetrySleep
    \/ CompleteLifecycleAction

SpecBind == InitPeers /\ [][NextBind]_vars

(***************************************************************************)
(* The AMI cleanup lambda (src/rds-cluster-events/go.mod, lines 48-221):   *)
(* it deregisters the old images no instance uses and deletes their        *)
(* snapshots.                                                              *)
(***************************************************************************)
\* The images of the owner named mattermost-cloud-*, with their age in hours.
Images ==
    << [ImageId |-> "ami-0a1", Name |-> "mattermost-cloud-1", Hours |-> 9000],
       [ImageId |-> "ami-0b2", Name |-> "mattermost-cloud-2", Hours |-> 731],
       [ImageId |-> "ami-0a12", Name |-> "mattermost-cloud-3", Hours |-> 800],
       [ImageId |-> "ami-0c3", Name |-> "mattermost-cloud-4", Hours |-> 730] >>

\* The snapshots of the owner.
Snapshots ==
    << [SnapshotId |-> "snap-1",
        Description |-> "Created by CreateImage(i-01) for ami-0a1"],
       [SnapshotId |-> "snap-2",
        Description |-> "Created by CreateImage(i-02) for ami-0b2"],
       [SnapshotId |-> "snap-3",
        Description |-> "Created by CreateImage(i-03) for ami-0a12"],
       [SnapshotId |-> "snap-4", Description |-> "nightly backup of the wiki"] >>

ImageIDs == { Images[n].ImageId : n \in 1..Len(Images) }

\* The elements of a sequence that satisfy Keep, in their order.
RECURSIVE Filter(_, _, _)
Filter(seq, Keep(_), n) ==
    IF n > Len(seq) THEN << >>
    ELSE (IF Keep(seq[n]) THEN << seq[n] >> ELSE << >>) \o Filter(seq, Keep, n + 1)

\* filterImagesByDateRange (lines 189-208) for olderThanHours.
filterImagesByDateRange(images, olderThanHours) ==
    LET Old(image) == image.Hours > olderThanHours
    IN Filter(images, Old, 1)

\* A faulty contains that gives back the string when the list holds it.
containsInverted(arr, str) ==
    IF str \in arr THEN str ELSE ""

\* contains (lines 180-187): "" when the list holds the string, and the
\* string otherwise.
contains(arr, str) ==
    IF str \in arr THEN "" ELSE str

\* The snapshots whose description contains the image's ID (lines 133-138).
snapshotsOf(imageID) ==
    LET Mine(snapshot) == ContainsString(snapshot.Description, imageID)
        mine == Filter(Snapshots, Mine, 1)
    IN [n \in 1..Len(mine) |-> mine[n].SnapshotId]

\* handler and getUniqueUsedImages (lines 73-86, 159-178): the images of the
\* instances, whichever they are, or an error.
GetUniqueUsedImages ==
    /\ ami.pc = "idle"
    /\ \/ \E used \in SUBSET ImageIDs :
             ami' = [ami EXCEPT !.uniqueUsedImages = used, !.pc = "describe"]
       \/ ami' = [ami EXCEPT !.err = "RequestLimitExceeded", !.pc = "done"]
    /\ UNCHANGED << core, verdicts, bind, sns, lb, rds, grant >>

\* deleteAMIs, lines 97-120: the snapshots and the images are read, and the
\* images older than 730 hours are kept.
DescribeImages ==
    /\ ami.pc = "describe"
    /\ \E o \in { "ok", "Failed to get snapshots", "Failed to describe images" } :
          ami' = IF o # "ok"
                 THEN [ami EXCEPT !.err = o \o ": RequestLimitExceeded", !.pc = "done"]
                 ELSE [ami EXCEPT !.oldImages = filterImagesByDateRange(Images, 730),
                                  !.k = 1, !.pc = "image"]
    /\ UNCHANGED << core, verdicts, bind, sns, lb, rds, grant >>

\* deleteAMIs, lines 121-139 and 151-156: an image that contains does not
\* find among the used ones is deregistered and its snapshots are looked up.
DeregisterImage ==
    /\ ami.pc = "image"
    /\ IF ami.k > Len(ami.oldImages)
       THEN ami' = [ami EXCEPT !.pc = "done"]
       ELSE IF contains(ami.uniqueUsedImages, ami.oldImages[ami.k].ImageId) = ""
       THEN ami' = [ami EXCEPT !.k = @ + 1]
       ELSE \E ok \in BOOLEAN :
               ami' = IF ok
                      THEN [ami EXCEPT
                               !.deregisterCalls = Append(@, ami.oldImages[ami.k].ImageId),
                               !.deregistered = @ \cup { ami.oldImages[ami.k].ImageId },
                               !.snapshotIDs = snapshotsOf(ami.oldImages[ami.k].ImageId),
                               !.pc = "snapshot"]
                      ELSE [ami EXCEPT
                               !.deregisterCalls = Append(@, ami.oldImages[ami.k].ImageId),
                               !.err = "Failed to deregister AMI "
                                           \o ami.oldImages[ami.k].ImageId,
                               !.pc = "done"]
    /\ UNCHANGED << core, verdicts, bind, sns, lb, rds, grant >>

\* deleteAMIs, lines 140-150: the snapshots found are deleted one by one; at
\* a failure deleteAMIs returns errors.Wrapf of the nil err of line 129,
\* which is nil.
DeleteSnapshot ==
    /\ ami.pc = "snapshot"
    /\ IF ami.snapshotIDs = << >>
       THEN ami' = [ami EXCEPT !.k = @ + 1, !.pc = "image"]
       ELSE \E ok \in BOOLEAN :
               ami' = [ami EXCEPT !.deleteCalls = Append(@, Head(ami.snapshotIDs)),
                                  !.snapshotIDs = Tail(@),
                                  !.pc = IF ok THEN "snapshot" ELSE "done"]
    /\ UNCHANGED << core, verdicts, bind, sns, lb, rds, grant >>

NextAmi ==
    \/ GetUniqueUsedImages
    \/ DescribeImages
    \/ DeregisterImage
    \/ DeleteSnapshot

SpecAmi == InitPeers /\ [][NextAmi]_vars

(***************************************************************************)
(* The RDS failover alert lambda (src/rds-cluster-events/main.go, lines    *)
(* 34-111) and the sender it shares with the other alert lambdas           *)
(* (src/unnamed/part_005, lines 54-69).                                    *)
(***************************************************************************)
\* The SNS messages a record may carry: the two failover events, another RDS
\* event, and a message that is not JSON.
SnsMessages ==
    { [decodes |-> TRUE, EventMessage |-> "Started cross AZ failover to DB instance: db-2"],
      [decodes |-> TRUE, EventMessage |-> "Completed failover to DB instance: db-2"],
      [decodes |-> TRUE, EventMessage |-> "DB instance restarted"],
      [decodes |-> FALSE, EventMessage |-> ""] }

SnsEvents ==
    { << m >> : m \in SnsMessages } \cup { << m, n >> : m \in SnsMessages, n \in SnsMessages }

\* The failover events the handler acts on (lines 43 and 50).
IsFailover(m) ==
    \/ HasPrefix(m.EventMessage, "Started cross AZ failover")
    \/ HasPrefix(m.EventMessage, "Completed failover")

\* handler, line 34: an event arrives in a process with its environment.
SnsReceive ==
    /\ sns.pc = "idle"
    /\ \E e \in SnsEvents, env1 \in { "", "test", "prod" },
          hook \in { "", "https://chat.example/hooks/x" } :
          sns' = [sns EXCEPT !.records = e, !.environment = env1, !.hook = hook,
                             !.k = 1, !.pc = "record"]
    /\ UNCHANGED << core, verdicts, bind, ami, lb, rds, grant >>

\* handler, lines 35-44 and 50-51, sendMattermostNotification (lines 61-80)
\* and send: a message that does not decode ends the handler, a message that
\* is no failover event is passed over, and for the others the notification
\* is posted when MATTERMOST_HOOK is set; send panics when client.Do returns
\* an error.
SendMattermostNotification ==
    /\ sns.pc = "record"
    /\ IF sns.k > Len(sns.records) \/ ~sns.records[sns.k].decodes
       THEN sns' = [sns EXCEPT !.pc = "done"]
       ELSE IF ~IsFailover(sns.records[sns.k])
       THEN sns' = [sns EXCEPT !.k = @ + 1]
       ELSE IF sns.hook = ""
       THEN sns' = [sns EXCEPT !.pc = "page"]
       ELSE \E o \in { "ok", "transport error" } :
               sns' = IF o = "ok"
                      THEN [sns EXCEPT !.sent = Append(@, sns.k), !.pc = "page"]
                      ELSE [sns EXCEPT !.pc = "panicked"]
    /\ UNCHANGED << core, verdicts, bind, ami, lb, rds, grant >>

\* handler, lines 46-49 and 53-56: outside the test environment the record
\* goes to PagerDuty, as a trigger or as a close.
SendPagerDuty ==
    /\ sns.pc = "page"
    /\ sns' = [sns EXCEPT
                  !.paged = IF sns.environment # "" /\ sns.environment # "test"
                            THEN Append(@, [k |-> sns.k,
                                            action |->
                                                IF HasPrefix(sns.records[sns.k].EventMessage,
                                                             "Started cross AZ failover")
                                                THEN "trigger" ELSE "close"])
                            ELSE @,
                  !.k = @ + 1,
                  !.pc = "record"]
    /\ UNCHANGED << core, verdicts, bind, ami, lb, rds, grant >>

NextSns ==
    \/ SnsReceive
    \/ SendMattermostNotification
    \/ SendPagerDuty

SpecSns == InitPeers /\ [][NextSns]_vars

(***************************************************************************)
(* listAllLBs of the ELB alarm lambda (src/unnamed/part_010, lines         *)
(* 278-312): the v2 and the classic load balancers of the account.         *)
(***************************************************************************)
\* The DescribeLoadBalancers calls one invocation has the time for before
\* the Lambda runtime stops it.
MaxDescribeCalls == 5

\* The load balancers of an account as DescribeLoadBalancers pages them.
V2Accounts ==
    { << << >> >>,
      << << "alb-1", "nlb-2" >> >>,
      << << "alb-1", "nlb-2" >>, << "alb-3" >> >>,
      << << "alb-1" >>, << "nlb-2" >>, << "alb-3" >> >> }

ClassicAccounts ==
    { << << >> >>,
      << << "elb-1" >> >>,
      << << "elb-1", "elb-2" >>, << "elb-3" >> >> }

\* DescribeLoadBalancers: without a Marker (0) the first page, with a Marker
\* the page it names; NextMarker is nil (0) on the last page.
DescribeLoadBalancers(pages, marker) ==
    LET n == IF marker = 0 THEN 1 ELSE marker
    IN [LoadBalancers |-> pages[n], NextMarker |-> IF n < Len(pages) THEN n + 1 ELSE 0]

\* The concatenation of the pages.
RECURSIVE Flatten(_)
Flatten(pages) ==
    IF pages = << >> THEN << >> ELSE Head(pages) \o Flatten(Tail(pages))

\* Lines 278-286.
ListAllLBs ==
    /\ lb.pc = "idle"
    /\ \/ \E v2 \in V2Accounts, classic \in ClassicAccounts :
             lb' = [lb EXCEPT !.v2Pages = v2, !.classicPages = classic, !.pc = "v2"]
       \/ lb' = [lb EXCEPT !.err = "Error creating aws session", !.pc = "returned"]
    /\ UNCHANGED << core, verdicts, bind, ami, sns, rds, grant >>

\* Lines 287-296: the input of every call is empty, so every call asks for
\* the first page; the loop ends when the page has no NextMarker.
DescribeV2 ==
    /\ lb.pc = "v2"
    /\ IF lb.calls >= MaxDescribeCalls
       THEN lb' = [lb EXCEPT !.pc = "timedOut"]
       ELSE \/ lb' = [lb EXCEPT !.calls = @ + 1, !.lbs = << >>, !.classicELBs = << >>,
                                !.err = "Throttling", !.pc = "returned"]
            \/ lb' = [lb EXCEPT
                         !.calls = @ + 1,
                         !.lbs = @ \o DescribeLoadBalancers(lb.v2Pages, 0).LoadBalancers,
                         !.pc = IF DescribeLoadBalancers(lb.v2Pages, 0).NextMarker = 0
                                THEN "classic" ELSE "v2"]
    /\ UNCHANGED << core, verdicts, bind, ami, sns, rds, grant >>

\* Lines 298-311: the same loop for the classic load balancers, and the
\* return of the two lists.
DescribeClassic ==
    /\ lb.pc = "classic"
    /\ IF lb.calls >= MaxDescribeCalls
       THEN lb' = [lb EXCEPT !.pc = "timedOut"]
       ELSE \/ lb' = [lb EXCEPT !.calls = @ + 1, !.lbs = << >>, !.classicELBs = << >>,
                                !.err = "Throttling", !.pc = "returned"]
            \/ lb' = [lb EXCEPT
                         !.calls = @ + 1,
                         !.classicELBs =
                             @ \o DescribeLoadBalancers(lb.classicPages, 0).LoadBalancers,
                         !.pc = IF DescribeLoadBalancers(lb.classicPages, 0).NextMarker = 0
                                THEN "returned" ELSE "classic"]
    /\ UNCHANGED << core, verdicts, bind, ami, sns, rds, grant >>

NextLb ==
    \/ ListAllLBs
    \/ DescribeV2
    \/ DescribeClassic

SpecLb == InitPeers /\ [][NextLb]_vars

(***************************************************************************)
(* The RDS alarm lambda (src/unnamed/part_004, lines 54-193): it puts a    *)
(* CloudWatch alarm for a new DB cluster, deletes it with the cluster, and *)
(* on any other event walks all clusters.                                  *)
(***************************************************************************)
ClusterIDs ==
    << "rds-cluster-multitenant-0a1b", "cloud-db-7", "test-cluster-1", "customer-42",
       "perf-latest-db" >>

\* The events: an RDS event with its name and cluster, whose detail may not
\* decode, or an event of another source (the manual run).
RdsEvents ==
    { [source |-> "aws.rds", decodes |-> d, eventName |-> n, cluster |-> ClusterIDs[c]] :
         d \in BOOLEAN, n \in { "CreateDBInstance", "DeleteDBInstance", "ModifyDBInstance" },
         c \in 1..Len(ClusterIDs) }
      \cup { [source |-> s, decodes |-> TRUE, eventName |-> "", cluster |-> ""] :
                s \in { "", "aws.events" } }

\* The filter of lines 69-70 and 83-84.
filtered(id) ==
    ContainsString(id, "rds-cluster-multitenant-") \/ ContainsString(id, "test-")

\* What createCloudWatchAlarm and deleteCloudWatchAlarm may end in.
AlarmOutcomes == { "ok", "error" }

\* handler, lines 54-66 and 101-102, and listRDS's DescribeDBClusters (lines
\* 166-179), which returns the clusters there are.
RdsReceive ==
    /\ rds.pc = "idle"
    /\ \E e \in RdsEvents :
          IF e.source = "aws.rds"
          THEN rds' = [rds EXCEPT !.source = e.source, !.eventName = e.eventName,
                                  !.cluster = e.cluster,
                                  !.pc = IF e.decodes THEN "event" ELSE "done"]
          ELSE \/ rds' = [rds EXCEPT !.source = e.source, !.pc = "done"]
               \/ \E first \in 1..Len(ClusterIDs), last \in 1..Len(ClusterIDs) :
                     rds' = [rds EXCEPT !.source = e.source,
                                        !.clusters = SubSeq(ClusterIDs, first, last),
                                        !.k = 1, !.pc = "listRDS"]
    /\ UNCHANGED << core, verdicts, bind, ami, sns, lb, grant >>

\* handler, lines 66-99: the alarm of a cluster that the filter lets through
\* is put or deleted.
HandleRdsEvent ==
    /\ rds.pc = "event"
    /\ \E o \in AlarmOutcomes :
          rds' = [rds EXCEPT
                     !.alarms = IF rds.eventName = "CreateDBInstance" /\ ~filtered(rds.cluster)
                                   /\ o = "ok"
                                THEN Append(@, rds.cluster) ELSE @,
                     !.deleted = IF rds.eventName = "DeleteDBInstance" /\ ~filtered(rds.cluster)
                                    /\ o = "ok"
                                 THEN Append(@, rds.cluster) ELSE @,
                     !.pc = "done"]
    /\ UNCHANGED << core, verdicts, bind, ami, sns, lb, grant >>

\* listRDS, lines 181-192: an alarm is put for every cluster whose identifier
\* does not contain "rds-cluster-multitenant-"; the first error ends the walk.
ListRDS ==
    /\ rds.pc = "listRDS"
    /\ IF rds.k > Len(rds.clusters)
       THEN rds' = [rds EXCEPT !.pc = "done"]
       ELSE IF ContainsString(rds.clusters[rds.k], "rds-cluster-multitenant-")
       THEN rds' = [rds EXCEPT !.k = @ + 1]
       ELSE \E o \in AlarmOutcomes :
               rds' = IF o = "ok"
                      THEN [rds EXCEPT !.alarms = Append(@, rds.clusters[rds.k]), !.k = @ + 1]
                      ELSE [rds EXCEPT !.pc = "done"]
    /\ UNCHANGED << core, verdicts, bind, ami, sns, lb, grant >>

NextRds ==
    \/ RdsReceive
    \/ HandleRdsEvent
    \/ ListRDS

SpecRds == InitPeers /\ [][NextRds]_vars

(***************************************************************************)
(* The grant-privileges lambda (src/grant-privileges-to-schemas/main.go):  *)
(* it grants the teleport users their privileges on the schemas of every   *)
(* logical database whose cluster is not excluded.                         *)
(***************************************************************************)
\* strings.Split for a one-character separator.
RECURSIVE Split(_, _)
Split(s, sep) ==
    IF Index(s, sep) = 0 THEN << s >>
    ELSE << Take(s, Index(s, sep) - 1) >> \o Split(Drop(s, Index(s, sep)), sep)

\* strings.TrimSpace.
TrimSpace(s) ==
    IF { k \in 1..Len(s) : Char(s, k) \notin { " ", "\t", "\n", "\r" } } = { } THEN ""
    ELSE SubSeq(s, First({ k \in 1..Len(s) : Char(s, k) \notin { " ", "\t", "\n", "\r" } }),
                   Last({ k \in 1..Len(s) : Char(s, k) \notin { " ", "\t", "\n", "\r" } }))

\* A faulty parseExcludedClusters that does not trim its entries.
parseExcludedClustersUntrimmed(excluded) ==
    { Split(excluded, ",")[n] : n \in 1..Len(Split(excluded, ",")) } \ { "" }

\* parseExcludedClusters (lines 46-56): the trimmed entries that are not
\* empty.
parseExcludedClusters(excluded) ==
    { TrimSpace(Split(excluded, ",")[n]) : n \in 1..Len(Split(excluded, ",")) } \ { "" }

\* isExcludedCluster (lines 59-62).
isExcludedCluster(cluster) == cluster \in grant.excludedClusters

\* The values EXCLUDED_CLUSTERS may have.
ExcludedValues ==
    { "", "cluster-a", " cluster-a , cluster-b", "cluster-b,,", "cluster-c ,cluster-a" }

GrantClusters == { "cluster-a", "cluster-b", "cluster-c" }

\* The rows of the provisioner's query: four schemas in three logical
\* databases (schema_name, logical_database_id).
SchemaRows ==
    { << "id_1", "ld1" >>, << "id_2", "ld1" >>, << "id_3", "ld2" >>, << "id_4", "ld3" >> }

\* fetchSchemasAndClusters's two maps (lines 144-158) for the rows, when the
\* logical database ld lives in cluster where[ld].
schemaToDBOf(rows) ==
    [schema \in { r[1] : r \in rows } |->
        "cloud_" \o (CHOOSE r \in rows : r[1] = schema)[2]]

dbToClusterOf(rows, where) ==
    [db \in { "cloud_" \o r[2] : r \in rows } |->
        where[(CHOOSE r \in rows : "cloud_" \o r[2] = db)[2]]]

\* The package's variables (lines 29-35) are set when the process starts.
GrantInit ==
    /\ grant.pc = "idle"
    /\ \E excluded \in ExcludedValues :
          grant' = [grant EXCEPT !.excluded = excluded,
                                 !.excludedClusters = parseExcludedClusters(excluded),
                                 !.pc = "handler"]
    /\ UNCHANGED << core, verdicts, bind, ami, sns, lb, rds >>

\* Handler, lines 201-227: the secret, the activity date and the query may
\* fail; otherwise the rows give the two maps.
FetchSchemasAndClusters ==
    /\ grant.pc = "handler"
    /\ \/ \E e \in { "failed to retrieve provisioner DB password",
                     "failed to fetch schemas and clusters" } :
             grant' = [grant EXCEPT !.err = e, !.pc = "done"]
       \/ \E rows \in (SUBSET SchemaRows) \ { { } },
             where \in [{ "ld1", "ld2", "ld3" } -> GrantClusters] :
             grant' = [grant EXCEPT !.schemaToDB = schemaToDBOf(rows),
                                    !.dbToCluster = dbToClusterOf(rows, where),
                                    !.pc = "loop"]
    /\ UNCHANGED << core, verdicts, bind, ami, sns, lb, rds >>

\* Handler, lines 229-262, and applyPermissionsToDatabase (lines 162-198):
\* the logical databases are taken in the order the map gives them; one in an
\* excluded cluster is skipped, for the others the connection is opened
\* unless the endpoint or the secret cannot be had, and the GRANTs are
\* executed on the schemas of the database.
GrantDatabase ==
    /\ grant.pc = "loop"
    /\ IF DOMAIN grant.dbToCluster = grant.visited
       THEN grant' = [grant EXCEPT !.pc = "done"]
       ELSE \E db \in DOMAIN grant.dbToCluster \ grant.visited :
               IF isExcludedCluster(grant.dbToCluster[db])
               THEN grant' = [grant EXCEPT !.visited = @ \cup { db }]
               ELSE \E o \in { "ok", "no endpoint", "no secret", "no connection" } :
                       grant' = IF o # "ok"
                                THEN [grant EXCEPT !.visited = @ \cup { db }]
                                ELSE [grant EXCEPT
                                         !.visited = @ \cup { db },
                                         !.opened = @ \cup { [db |-> db,
                                                              cluster |-> grant.dbToCluster[db]] },
                                         !.grants = @ \cup
                                             { [schema |-> sc, db |-> db,
                                                cluster |-> grant.dbToCluster[db]] :
                                                  sc \in { x \in DOMAIN grant.schemaToDB :
                                                              grant.schemaToDB[x] = db } }]
    /\ UNCHANGED << core, verdicts, bind, ami, sns, lb, rds >>

NextGrant ==
    \/ GrantInit
    \/ FetchSchemasAndClusters
    \/ GrantDatabase

SpecGrant == InitPeers /\ [][NextGrant]_vars

(***************************************************************************)
(* Properties of the handler (specification Spec).                         *)
(***************************************************************************)
\* The cloud server's URL as url.Parse reads it from the configuration.
ConfiguredURL == Parse(config.CloudServerURL)

\* The request that sendToWebhook would build can be sent: the webhook's URL
\* parses and names an http or https host.
WebhookSendable ==
    /\ Parse(config.MattermostWebhookURL).err = ""
    /\ Parse(config.MattermostWebhookURL).url.Scheme \in {"http", "https"}
    /\ Parse(config.MattermostWebhookURL).url.Host # ""

\* C1: a request is sent to the cloud server only after isAuthorized has
\* returned true for the final URL; when it has returned false, or when the
\* cloud server's URL or the inbound path has failed to parse, no request is
\* sent to the cloud server in the invocation.
UpstreamOnlyAfterAuthorized ==
    /\ upstreamCalls # << >> => authorized = "true" /\ isAuthorized(final)
    /\ authorized = "false" => upstreamCalls = << >>
    /\ ConfiguredURL.err # "" => upstreamCalls = << >>
    /\ Parse(request.Path).err # "" => upstreamCalls = << >>
    /\ failure.statusCode \in {StatusBadRequest, StatusUnauthorized} => upstreamCalls = << >>

\* An invocation has sent its request to the cloud server, after authorization.
UpstreamCalledWhenAuthorized ==
    /\ pc = "returned"
    /\ authorized = "true"
    /\ Len(upstreamCalls) = 1

\* C2: every request sent to the cloud server has the scheme and the host of
\* the configured cloud server URL, whatever the inbound path is.
UpstreamAddressedToConfiguredHost ==
    \A i \in 1..Len(upstreamCalls) :
        /\ upstreamCalls[i].URL.Scheme = ConfiguredURL.url.Scheme
        /\ upstreamCalls[i].URL.Host = ConfiguredURL.url.Host

\* C3: the status of an error response tells the step that failed: 400
\* exactly when the inbound path did not parse, 401 exactly when isAuthorized
\* rejected the final URL, and 500 exactly when the cloud server's URL did
\* not parse, the outbound request could not be built, the transport failed
\* or timed out, or the response body could not be read.
ErrorStatusByFailedStep ==
    (pc = "returned" /\ err # "") =>
        /\ response.StatusCode \in
               {StatusBadRequest, StatusUnauthorized, StatusInternalServerError}
        /\ response.StatusCode = StatusBadRequest
               <=> (ConfiguredURL.err = "" /\ Parse(request.Path).err # "")
        /\ response.StatusCode = StatusUnauthorized <=> authorized = "false"
        /\ response.StatusCode = StatusInternalServerError
               <=> \/ ConfiguredURL.err # ""
                   \/ authorized = "true" /\ cloudServerRequest = NoRequest
                   \/ cloudServerRequest # NoRequest /\ resp = NoResponse
                   \/ resp.readErr # ""

\* An invocation has answered 400 to a path that does not parse.
BadRequestReturned ==
    /\ pc = "returned"
    /\ err # ""
    /\ request.Path = "/%zz"
    /\ response.StatusCode = StatusBadRequest

\* C7: when client.Do has returned a response and its body has been read,
\* the handler returns that response's status and body, whatever the status,
\* and no error.
PassThrough ==
    /\ (pc = "returned" /\ err = "") =>
           /\ resp.kind = "response"
           /\ response.StatusCode = resp.StatusCode
           /\ response.Body = resp.Body
    /\ (pc = "returned" /\ resp.kind = "response" /\ resp.readErr = "") => err = ""

\* A 503 of the cloud server has been returned with its body.
ServiceUnavailableRelayed ==
    /\ pc = "returned"
    /\ err = ""
    /\ resp.StatusCode = 503
    /\ response.StatusCode = 503
    /\ response.Body = "{\"x\":1}"

\* C8: sendToWebhook is called exactly once in an invocation that ends in an
\* error response and never in one that ends in a relayed response; a call
\* sends at most one POST, and exactly one when the webhook's URL can be
\* sent to, whatever the POST ends in.
NotifiedExactlyOnce ==
    /\ notifications <= 1
    /\ Len(webhookCalls) <= notifications
    /\ (pc = "returned" /\ err # "") =>
           /\ notifications = 1
           /\ WebhookSendable =>
                 /\ Len(webhookCalls) = 1
                 /\ webhookCalls[1].Method = "POST"
                 /\ webhookCalls[1].URL = Parse(config.MattermostWebhookURL).url
    /\ (pc = "returned" /\ err = "") => notifications = 0 /\ webhookCalls = << >>

\* A notification that the webhook answered with a 500 was sent once.
FailedNotificationSentOnce ==
    /\ pc = "returned"
    /\ err # ""
    /\ webhookErr = "received status code 500"
    /\ notifications = 1
    /\ Len(webhookCalls) = 1

\* C9: the error response is the status and the error processFailedAuth was
\* given, whatever sendToWebhook has returned.
ErrorResponseKeepsPrimaryError ==
    /\ (pc = "returned" /\ err # "") =>
           /\ response.StatusCode = failure.statusCode
           /\ response.Body = "{\"error\":\"" \o JSONChars(failure.err) \o "\"}"
           /\ err = failure.err
    /\ pc = "errorResponse" => failure.err # "" /\ failure.statusCode # 0

\* An error response was returned after its notification had failed.
ErrorReturnedAfterWebhookFailure ==
    /\ pc = "returned"
    /\ err # ""
    /\ webhookErr # ""
    /\ response.StatusCode = StatusUnauthorized

AllowedPrefixes ==
    { "api/installation", "api/cluster_installation", "api/webhooks", "api/webhook",
      "/api/installation", "/api/cluster_installation", "/api/webhooks", "/api/webhook" }

\* s begins with the characters of p, compared one by one.
StartsWith(s, p) ==
    /\ Len(p) <= Len(s)
    /\ \A k \in 1..Len(p) : Char(s, k) = Char(p, k)

StartsWithAllowedPrefix(s) == \E p \in AllowedPrefixes : StartsWith(s, p)

\* An identifier of 26 characters, all letters or digits.
GoodID(id) ==
    /\ Len(id) = 26
    /\ \A k \in 1..Len(id) : Char(id, k) \in AlphaNum

\* s is /api/security/installation/<id>/deletion/lock or .../unlock with a
\* good identifier, and nothing before or after.
LockOrUnlock(s) ==
    \E op \in {"lock", "unlock"} :
        /\ Len(s) = 27 + 26 + 10 + Len(op)
        /\ Take(s, 27) = "/api/security/installation/"
        /\ GoodID(SubSeq(s, 28, 53))
        /\ Drop(s, 53) = "/deletion/" \o op

\* C4: isAuthorized returns true for every URL whose escaped path starts
\* with one of the eight prefixes as a literal, case-sensitive string,
\* whether or not the prefix ends at the end of a path segment.
PrefixAccepted ==
    (authorized # "none" /\ StartsWithAllowedPrefix(EscapedPath(final)))
        => authorized = "true"

\* A path that goes on after the prefix inside the same segment was accepted.
PrefixInsideSegmentAccepted ==
    /\ authorized = "true"
    /\ EscapedPath(final) = "api/installation2"

\* C5: isAuthorized returns false for every URL whose escaped path starts
\* with none of the eight prefixes and is neither the lock nor the unlock path
\* of a good identifier.
OthersRejected ==
    (/\ authorized # "none"
     /\ ~StartsWithAllowedPrefix(EscapedPath(final))
     /\ ~LockOrUnlock(EscapedPath(final)))
        => authorized = "false"

\* A prefix written in capital letters was rejected.
UpperCasePrefixRejected ==
    /\ authorized = "false"
    /\ EscapedPath(final) = "/API/INSTALLATION/abc"

NoAcceptEncodingSent ==
    \A i \in 1..Len(upstreamCalls) :
        "Accept-Encoding" \notin DOMAIN upstreamCalls[i].Header

\* C12: every request sent to the cloud server carries every multi-value
\* header of the inbound request but Accept-Encoding, with all its values.
InboundHeadersSent ==
    \A i \in 1..Len(upstreamCalls) :
        \A k \in (DOMAIN request.MultiValueHeaders) \ {"Accept-Encoding"} :
            /\ k \in DOMAIN upstreamCalls[i].Header
            /\ upstreamCalls[i].Header[k] = request.MultiValueHeaders[k]

\* The text of the client's timeout, which ends the error of a call that
\* the timeout has cut off.
ClientTimeoutText == "(Client.Timeout exceeded while awaiting headers)"

EventuallyReturns ==
    /\ (pc = "parseCloudURL") ~> (pc = "returned")
    /\ [](pc = "processFailedAuth" /\ HasSuffix(failure.err, ClientTimeoutText)
             => failure.statusCode = StatusInternalServerError /\ notifications = 0)
    /\ (pc = "processFailedAuth" /\ HasSuffix(failure.err, ClientTimeoutText))
          ~> (/\ pc = "returned"
              /\ response.StatusCode = StatusInternalServerError
              /\ notifications = 1)
    /\ [](pc = "returned" /\ err # "" => notifications = 1)

\* An invocation has returned 500 after its call of the cloud server and its
\* notification have both been cut off by their timeouts.
ReturnedAfterBothTimeouts ==
    /\ pc = "returned"
    /\ HasSuffix(err, ClientTimeoutText)
    /\ HasSuffix(webhookErr, ClientTimeoutText)
    /\ notifications = 1
    /\ response.StatusCode = StatusInternalServerError

\* C15: the process comes to handle requests only if both configuration
\* values are set and CLOUD_SERVER parses as an absolute URL.
HandlesOnlyWithValidConfig ==
    pc \notin {"start", "fatal"} =>
        /\ env.CLOUD_SERVER # ""
        /\ env.MATTERMOST_WEBHOOK # ""
        /\ Parse(env.CLOUD_SERVER).err = ""
        /\ Parse(env.CLOUD_SERVER).url.Scheme # ""
        /\ Parse(env.CLOUD_SERVER).url.Host # ""

\* C16: every response that is returned, relayed or error, has a
\* Content-Type header.
EveryResponseHasContentType ==
    pc = "returned" => "Content-Type" \in DOMAIN response.Headers

\* C17, as stated: a relayed response carries the headers of the cloud
\* server's response as they are, with its status and its body.
UpstreamHeadersRelayed ==
    (pc = "returned" /\ err = "") =>
        /\ DOMAIN response.Headers = DOMAIN resp.Header
        /\ \A k \in DOMAIN resp.Header : resp.Header[k] = << response.Headers[k] >>
        /\ response.StatusCode = resp.StatusCode
        /\ response.Body = resp.Body

\* C17, amended: a relayed response carries the cloud server's status and
\* body and the one header Content-Type: application/json, whatever headers
\* the cloud server's response has.
RelayedWithFixedContentType ==
    (pc = "returned" /\ err = "") =>
        /\ response.Headers = ("Content-Type" :> "application/json")
        /\ response.StatusCode = resp.StatusCode
        /\ response.Body = resp.Body

\* A response of the cloud server with a text/plain Content-Type and a
\* Retry-After header has been relayed as application/json.
PlainTextRelayedAsJSON ==
    /\ pc = "returned"
    /\ err = ""
    /\ "Retry-After" \in DOMAIN resp.Header
    /\ resp.Header["Content-Type"] = << "text/plain" >>
    /\ response.Headers = ("Content-Type" :> "application/json")

\* C18: the query of every request sent to the cloud server holds every
\* value of every query parameter of the inbound request.
AllQueryValuesSent ==
    \A i \in 1..Len(upstreamCalls) :
        upstreamCalls[i].URL.RawQuery = Encode(request.MultiValueQueryStringParameters)

\* C19: no step of validateCloudRequest or of processFailedAuth changes the
\* inbound request: its method, path, query parameters, headers and body are
\* at the return what they were at the entry.
RequestUnchanged == [][(pc \in StepPositions) => (request' = request)]_vars

\* An invocation has returned after its request was sent to the cloud
\* server, and the inbound Accept-Encoding header still has its value.
InboundHeadersKeptAfterSend ==
    /\ pc = "returned"
    /\ upstreamCalls # << >>
    /\ "Accept-Encoding" \in DOMAIN request.MultiValueHeaders
    /\ request.MultiValueHeaders["Accept-Encoding"] = << "gzip" >>
    /\ upstreamCalls[1].Header["Accept-Encoding"] = << "" >>


ErrorOnEveryFailurePath ==
    (pc = "returned") =>
        /\ (failure # NoFailure) <=> (err # "")
        /\ (err # "") =>
               /\ err = failure.err
               /\ response.Body = MarshalErrorResponse(err)
               /\ response.StatusCode = failure.statusCode
               /\ response.StatusCode \in
                      { StatusBadRequest, StatusUnauthorized, StatusInternalServerError }
        /\ (err = "") <=>
               /\ resp # NoResponse
               /\ resp.readErr = ""
               /\ response.StatusCode = resp.StatusCode
               /\ response.Body = resp.Body

\* A request for a path that is not authorized has returned 401 and an error.
UnauthorizedReturnedWithError ==
    /\ pc = "returned"
    /\ response.StatusCode = StatusUnauthorized
    /\ authorized = "false"
    /\ err # ""
    /\ response.Body = MarshalErrorResponse(err)


(***************************************************************************)
(* Properties of the peer lambdas.                                         *)
(***************************************************************************)
\* C22: when the bind-server handler is over, a launch action has been
\* completed exactly once, with CONTINUE if and only if an interface was
\* attached within the five attempts and with ABANDON otherwise; for any
\* other detail type nothing has been completed.
LifecycleCompletedOnce ==
    (bind.pc \in { "done", "panicked" }) =>
        IF bind.detailType = LaunchAction
        THEN /\ Len(bind.completions) = 1
             /\ bind.completions[1].ok
             /\ bind.completions[1].result =
                    IF bind.attached > 0 THEN "CONTINUE" ELSE "ABANDON"
        ELSE bind.completions = << >>

\* ---------------------------------------------------------------------------
\* C25: retry calls fn at most attempts times and not again after the first
\* nil; it returns nil if and only if a call returned nil, and otherwise,
\* after exactly attempts calls, an error that carries the last failure; the
\* base delay doubles after every failed call.
RetryContract ==
    /\ Len(bind.results) <= bind.attempts
    /\ \A k \in 1..(Len(bind.results) - 1) : bind.results[k] # ""
    /\ (bind.attempts > 0 /\ bind.pc \in { "retryReturned", "done" }) =>
           /\ (bind.retErr = "") <=> (\E k \in 1..Len(bind.results) : bind.results[k] = "")
           /\ (bind.retErr # "") =>
                  /\ Len(bind.results) = bind.attempts
                  /\ bind.retErr = "after " \o Itoa(bind.attempts) \o " attempts, last error: "
                                       \o bind.results[Len(bind.results)]
    /\ \A k \in 1..Len(bind.delays) :
           bind.delays[k] = IF k = 1 THEN 2 ELSE 2 * bind.delays[k - 1]
    /\ (bind.pc \in { "retry", "retryReturned", "done" }) =>
           Len(bind.delays) = Cardinality({ k \in 1..Len(bind.results) : bind.results[k] # "" })

\* The third call of fn has returned nil after two failures, and retry has
\* returned nil.
SucceededOnThirdCall ==
    /\ bind.pc = "retryReturned"
    /\ Len(bind.results) = 3
    /\ bind.results[3] = ""
    /\ bind.retErr = ""
    /\ bind.delays = << 2, 4 >>


\* ---------------------------------------------------------------------------
\* C23: the AMI cleanup never gives DeregisterImage the ID of an image that
\* an instance uses, and it gives DeleteSnapshot only snapshots whose
\* description contains the ID of an image it has deregistered before in the
\* same run.
OnlyUnusedImagesRemoved ==
    /\ \A n \in 1..Len(ami.deregisterCalls) :
           ami.deregisterCalls[n] \notin ami.uniqueUsedImages
    /\ \A n \in 1..Len(ami.deleteCalls) :
           \E m \in 1..Len(Snapshots) :
              /\ Snapshots[m].SnapshotId = ami.deleteCalls[n]
              /\ \E id \in ami.deregistered :
                    ContainsString(Snapshots[m].Description, id)

\* A run has ended in which an old image in use was kept, and an old image
\* not in use was deregistered and a snapshot of it was deleted.
UsedImageKeptUnusedRemoved ==
    /\ ami.pc = "done"
    /\ ami.err = ""
    /\ "ami-0b2" \in ami.uniqueUsedImages
    /\ "ami-0b2" \notin ami.deregistered
    /\ "ami-0a12" \in ami.deregistered
    /\ \E n \in 1..Len(ami.deleteCalls) : ami.deleteCalls[n] = "snap-3"


\* ---------------------------------------------------------------------------
\* C24: a transport error of the chat notification is not fatal to the alert
\* handler: the handler never ends in a panic, and when it is over every
\* failover record that it was to handle has gone through the paging step.
ChatFailureNotFatal ==
    /\ sns.pc # "panicked"
    /\ (sns.pc = "done") =>
           \A k \in 1..Len(sns.records) :
              (/\ \A j \in 1..k : sns.records[j].decodes
               /\ IsFailover(sns.records[k])
               /\ sns.environment \notin { "", "test" })
                  => \E n \in 1..Len(sns.paged) : sns.paged[n].k = k


\* ---------------------------------------------------------------------------
\* C27: listAllLBs comes to its end for every account, also when the load
\* balancers span several pages, and when it returns without an error its
\* two lists hold every v2 and every classic load balancer exactly once.
ListsEveryLoadBalancerOnce ==
    /\ lb.pc # "timedOut"
    /\ (lb.pc = "returned" /\ lb.err = "") =>
           /\ lb.lbs = Flatten(lb.v2Pages)
           /\ lb.classicELBs = Flatten(lb.classicPages)


\* ---------------------------------------------------------------------------
\* C28: the RDS alarm lambda puts no alarm for a cluster whose identifier
\* contains "rds-cluster-multitenant-" or "test-", neither on a
\* CreateDBInstance event nor on the run that walks all clusters.
NoAlarmForFilteredClusters ==
    \A n \in 1..Len(rds.alarms) :
        /\ ~ContainsString(rds.alarms[n], "rds-cluster-multitenant-")
        /\ ~ContainsString(rds.alarms[n], "test-")


\* ---------------------------------------------------------------------------
\* C29: the grant-privileges Handler opens no connection to, and executes no
\* GRANT on, a logical database whose cluster is an entry of
\* EXCLUDED_CLUSTERS: a name that stands between two commas (or the ends) of
\* the variable, with or without a blank before and after it.
ExcludedEntry(cluster) ==
    \E before \in { "", " " }, after \in { "", " " } :
        ContainsString("," \o grant.excluded \o ",",
                       "," \o before \o cluster \o after \o ",")

NoExcludedClusterTouched ==
    /\ \A o \in grant.opened : ~ExcludedEntry(o.cluster)
    /\ \A g \in grant.grants : ~ExcludedEntry(g.cluster)

\* With " cluster-a , cluster-b" excluded, a run has ended that skipped a
\* database of cluster-a and granted on the schemas of a database of
\* cluster-c.
ExcludedSkippedOthersGranted ==
    /\ grant.pc = "done"
    /\ grant.excluded = " cluster-a , cluster-b"
    /\ \E db \in grant.visited : grant.dbToCluster[db] = "cluster-a"
    /\ \E g \in grant.grants : g.cluster = "cluster-c"
    /\ \A o \in grant.opened : o.cluster = "cluster-c"

=============================================================================
